---- MODULE Spec2Model ----
(***************************************************************************)
(* State-machine model of the FileTranslationBackend material pipeline     *)
(* (src/app.py, src/state_machine.py, src/websocket_events.py).            *)
(*                                                                         *)
(* Display (status) strings of the source are Chinese; the model writes    *)
(* them as ASCII tokens:                                                   *)
(*   D_PENDING '待处理'        D_UPLOADED '已上传'    D_ADDED '已添加'       *)
(*   D_SPLITTING '拆分中'      D_SPLIT_COMPLETED '拆分完成'                  *)
(*   D_TRANSLATING '翻译中'    D_TRANSLATED '翻译完成'                       *)
(*   D_TRANSLATE_FAILED '翻译失败'   D_CONFIRMED '已确认'                    *)
(*   D_ENTITY_RECOGNIZING '实体识别中'  D_ENTITY_PENDING '待确认实体'         *)
(*   D_ENTITY_CONFIRMED '实体已确认'    D_LLM_TRANSLATING 'AI优化中'          *)
(*   D_LLM_TRANSLATED 'AI优化完成'      D_PROCESS_FAILED '处理失败'           *)
(*   D_UNKNOWN '未知'                                                      *)
(***************************************************************************)
EXTENDS Integers, Sequences, FiniteSets, TLC

\* ------------------------------------------------------------------ bounds
\* number of accepted, state-changing HTTP requests in one behaviour
MaxReq == 4
\* number of concurrently running handlers / background threads
MaxTasks == 2
\* accepted requests in a behaviour of QuietSpec
MaxQuietReq == 7
\* accepted requests in a behaviour of ReviewSpec
MaxReviewReq == 4
\* accepted requests in a behaviour of SpecPdf
MaxPdfReq == 4

\* ------------------------------------------------------- material identity
\* one plain image, the two pages of one PDF upload, one web page
ImageIds == {"m1"}
PdfPages == <<"p1", "p2">>
PdfIds == {PdfPages[i] : i \in 1..Len(PdfPages)}
WebIds == {"w1"}
Mats == ImageIds \cup PdfIds \cup WebIds

\* ---------------------------------------------------------- MaterialStatus
PENDING == "D_PENDING"
UPLOADED == "D_UPLOADED"
SPLITTING == "D_SPLITTING"
TRANSLATING == "D_TRANSLATING"
TRANSLATED == "D_TRANSLATED"
FAILED == "D_TRANSLATE_FAILED"
CONFIRMED == "D_CONFIRMED"
ADDED == "D_ADDED"

\* ---------------------------------------------------------- ProcessingStep
ProcessingStep ==
  {"uploaded", "splitting", "split_completed", "translating", "translated",
   "entity_recognizing", "entity_pending_confirm", "entity_confirmed",
   "llm_translating", "llm_translated", "confirmed", "failed"}

PROCESSING_STATES ==
  {"splitting", "translating", "entity_recognizing", "llm_translating"}

\* STATUS_DISPLAY.get(step, step or '未知'); a NULL step displays as '未知'
STATUS_DISPLAY(step) ==
  CASE step = "uploaded" -> "D_UPLOADED"
    [] step = "splitting" -> "D_SPLITTING"
    [] step = "split_completed" -> "D_SPLIT_COMPLETED"
    [] step = "translating" -> "D_TRANSLATING"
    [] step = "translated" -> "D_TRANSLATED"
    [] step = "entity_recognizing" -> "D_ENTITY_RECOGNIZING"
    [] step = "entity_pending_confirm" -> "D_ENTITY_PENDING"
    [] step = "entity_confirmed" -> "D_ENTITY_CONFIRMED"
    [] step = "llm_translating" -> "D_LLM_TRANSLATING"
    [] step = "llm_translated" -> "D_LLM_TRANSLATED"
    [] step = "confirmed" -> "D_CONFIRMED"
    [] step = "failed" -> "D_PROCESS_FAILED"
    [] OTHER -> "D_UNKNOWN"

\* ------------------------------------------------------------- row values
\* SQL NULL of a string column
NULL == "NULL"
\* entity_user_edits: NULL, or the stored JSON object {entities,
\* translationGuidance, confirmedAt}; translationGuidance is modelled by the
\* set of its keys, entities by the material whose request supplied them
GuidanceKeys == {"persons", "locations", "organizations", "terms"}
NoEdits == [null |-> TRUE, entities |-> NULL, translationGuidance |-> {}]
Edits(src, keys) == [null |-> FALSE, entities |-> src, translationGuidance |-> keys]
\* llm_translation_result: NULL, or the list computed from OCR result `from`
NoLLM == [null |-> TRUE, from |-> 0]
LLMResult(gen) == [null |-> FALSE, from |-> gen]

\* a row of table materials (class Material); translation_text_info is 0 for
\* NULL and n > 0 for the n-th OCR result produced in the behaviour
Material(type, status, step, page, total) ==
  [type |-> type,
   status |-> status,
   pdf_session_id |-> IF total > 0 THEN "s1" ELSE NULL,
   translated_image_path |-> NULL,
   confirmed |-> FALSE,
   selected_result |-> "api",
   translation_text_info |-> 0,
   translation_error |-> NULL,
   llm_translation_result |-> NoLLM,
   has_edited_version |-> FALSE,
   edited_regions |-> NULL,
   final_image_path |-> NULL,
   pdf_page_number |-> page,
   pdf_total_pages |-> total,
   entity_recognition_enabled |-> FALSE,
   entity_recognition_mode |-> NULL,
   entity_recognition_result |-> NULL,
   entity_recognition_confirmed |-> FALSE,
   entity_recognition_triggered |-> FALSE,
   entity_user_edits |-> NoEdits,
   entity_recognition_error |-> NULL,
   processing_step |-> step,
   version |-> 0]

\* api_cache without an entry for the client's key (an entry is <<list>>)
NoCache == <<>>

\* no row with this id
NoRow == Material("absent", NULL, NULL, 0, 0)

\* ---------------------------------------------------------------- state
VARIABLES
  db,                 \* table materials: id -> row (NoRow when absent)
  tasks,              \* slot -> running handler or background thread
  WEBSOCKET_ENABLED,  \* app.py flag: websocket_events imported
  published,          \* {<<event, material>>} emitted so far
  resp,               \* status code of the last HTTP response (0: none)
  budget,             \* accepted requests the clients may still send
  ocrSeq,             \* OCR results produced so far
  api_cache,          \* api_cache entry of the client's materials list
  commits,            \* commits made by update_material_status so far
  wire,               \* events in the order they were emitted
  arg,                \* arguments of the call of a service function
  ret,                \* <<value>> returned by the last call or GET, <<>> before
  rooms,              \* the Socket.IO rooms each connection has joined
  received            \* the events delivered to each connection

vars == <<db, tasks, WEBSOCKET_ENABLED, published, resp, budget, ocrSeq,
          api_cache, commits, wire, arg, ret, rooms, received>>

Slots == 1..MaxTasks

\* Socket.IO connections (request.sid) and the one client of the model
Conns == {"sid1", "sid2"}
client_id == "c1"
\* events of emit_llm_started / emit_llm_completed / emit_llm_error
LlmEvents == {"llm_started", "llm_completed", "llm_error"}

\* a running activity: kind of handler/thread, material, position, the
\* ORM session's copy of the row (loaded = FALSE after a commit expired it),
\* remaining materials of a batch, captured OCR generation
Task(kind, m, pc, snap, loaded, queue, aux) ==
  [kind |-> kind, mat |-> m, pc |-> pc, snap |-> snap, loaded |-> loaded,
   queue |-> queue, aux |-> aux]
Idle == Task("idle", NULL, NULL, NoRow, FALSE, <<>>, 0)

FreeSlots == {s \in Slots : tasks[s] = Idle}
\* threading.Thread(...).start() / a request entering its handler
Spawn(t) ==
  LET s == CHOOSE x \in FreeSlots : \A y \in FreeSlots : x <= y
  IN [tasks EXCEPT ![s] = t]

Exists(m) == db[m].type # "absent"

\* SQLAlchemy unit of work: a column is written by the UPDATE when it was
\* assigned and either the session's copy is expired or the assigned value
\* differs from the session's copy; other columns keep the stored value
Flush(row, snap, loaded, assigns) ==
  [c \in DOMAIN row |->
     IF c \in DOMAIN assigns /\ (~loaded \/ assigns[c] # snap[c])
     THEN assigns[c] ELSE row[c]]

\* ------------------------------------------------------------------ Init
\* the state after start-up: an empty table, nothing running; `n` requests
\* will be accepted
InitCall(n, a) ==
  /\ db = [m \in Mats |-> NoRow]
  /\ tasks = [s \in Slots |-> Idle]
  /\ WEBSOCKET_ENABLED \in BOOLEAN
  /\ published = {}
  /\ resp = 0
  /\ budget = n
  /\ ocrSeq = 0
  /\ api_cache = NoCache
  /\ commits = 0
  /\ wire = <<>>
  /\ arg = a
  /\ ret = <<>>
  /\ rooms = [c \in Conns |-> {}]
  /\ received = [c \in Conns |-> {}]

InitWith(n) == InitCall(n, NULL)

Init == InitWith(MaxReq)

\* websocket_events.emit_*: an event reaches the wire only when the module
\* was imported (every call site is guarded by WEBSOCKET_ENABLED)
Emit(evs) == IF WEBSOCKET_ENABLED THEN published \cup evs ELSE published

\* the room an emit_* function names: emit_llm_* use material_{id}, the other
\* functions client_{client_id}
RoomOf(e) ==
  IF e[1] \in LlmEvents THEN "material_" \o e[2] ELSE "client_" \o client_id

\* _socketio.emit(name, data, room=room_name) reaches the connections in the
\* room; emit_llm_* call _socketio.emit(name, data) a second time without a
\* room, which reaches every connection
Deliver(evs) ==
  IF WEBSOCKET_ENABLED
  THEN [c \in Conns |->
          received[c] \cup {e \in evs : RoomOf(e) \in rooms[c] \/ e[1] \in LlmEvents}]
  ELSE received

\* update_material_status(material, status, **kwargs): row after the commit
update_material_status(row, snap, loaded, status, kwargs) ==
  LET cur == IF loaded THEN snap ELSE row
      old_version == cur.version
  IN Flush(row, cur, TRUE,
           ("status" :> status) @@ kwargs @@ ("version" :> old_version + 1))

\* event published by update_material_status after its commit, chosen by the
\* status the reloaded row carries
StatusEvent(m, row) ==
  IF row.status = FAILED THEN {<<"material_error", m>>}
  ELSE {<<"material_updated", m>>}

Finish(s) == [tasks EXCEPT ![s] = Idle]

\* ------------------------------------------------------------ upload_files
\* POST /api/clients/<id>/materials/upload with one image file
upload_files_image(m) ==
  /\ m \in ImageIds /\ ~Exists(m) /\ budget > 0
  /\ db' = [db EXCEPT ![m] = Material("image", UPLOADED, "uploaded", 0, 0)]
  /\ resp' = 200
  /\ budget' = budget - 1
  /\ UNCHANGED <<tasks, WEBSOCKET_ENABLED, rooms, commits, wire, arg, ret, published, received, ocrSeq>>
  /\ api_cache' = NoCache

\* the same request with one PDF file: placeholder rows for every page, then
\* the thread process_pdf_async
upload_files_pdf ==
  /\ \A m \in PdfIds : ~Exists(m)
  /\ budget > 0 /\ FreeSlots # {}
  /\ db' = [m \in Mats |->
              IF m \in PdfIds
              THEN Material("image", SPLITTING, "splitting",
                            CHOOSE i \in 1..Len(PdfPages) : PdfPages[i] = m,
                            Len(PdfPages))
              ELSE db[m]]
  /\ tasks' = Spawn(Task("process_pdf_async", PdfPages[1], "page", NoRow, FALSE,
                         Tail(PdfPages), 0))
  /\ resp' = 200
  /\ budget' = budget - 1
  /\ UNCHANGED <<WEBSOCKET_ENABLED, rooms, commits, wire, arg, ret, published, received, ocrSeq>>
  /\ api_cache' = NoCache

\* process_pdf_async, one page rendered and saved: the page's row is updated
\* and material_updated is emitted; the thread goes on to the next page
process_pdf_async_page(s) ==
  LET t == tasks[s]
      m == t.mat
  IN /\ t.kind = "process_pdf_async"
     /\ db' = [db EXCEPT ![m] =
                 IF Exists(m)
                 THEN Flush(db[m], db[m], TRUE,
                            [status |-> UPLOADED, processing_step |-> "split_completed"])
                 ELSE db[m]]
     /\ published' = IF Exists(m) THEN Emit({<<"material_updated", m>>}) ELSE published
     /\ received' = IF Exists(m) THEN Deliver({<<"material_updated", m>>}) ELSE received
     /\ tasks' = IF t.queue = <<>> THEN Finish(s)
                 ELSE [tasks EXCEPT ![s].mat = Head(t.queue), ![s].queue = Tail(t.queue)]
     /\ UNCHANGED <<WEBSOCKET_ENABLED, rooms, api_cache, commits, wire, arg, ret, resp, budget, ocrSeq>>

\* process_pdf_async, an exception while opening, rendering or saving a page:
\* the handler logs it and the thread ends
process_pdf_async_raise(s) ==
  /\ tasks[s].kind = "process_pdf_async"
  /\ tasks' = Finish(s)
  /\ UNCHANGED <<db, WEBSOCKET_ENABLED, rooms, api_cache, commits, wire, arg, ret, published, received, resp, budget, ocrSeq>>

\* -------------------------------------------------------------- upload_urls
\* POST /api/clients/<id>/materials/urls with one URL: the row, then the
\* thread auto_translate_webpages
upload_urls(m) ==
  /\ m \in WebIds /\ ~Exists(m)
  /\ budget > 0 /\ FreeSlots # {}
  /\ db' = [db EXCEPT ![m] = Material("webpage", ADDED, "uploaded", 0, 0)]
  /\ tasks' = Spawn(Task("auto_translate_webpages", m, "start", NoRow, FALSE, <<>>, 0))
  /\ resp' = 200
  /\ budget' = budget - 1
  /\ UNCHANGED <<WEBSOCKET_ENABLED, rooms, commits, wire, arg, ret, published, received, ocrSeq>>
  /\ api_cache' = NoCache

\* auto_translate_webpages: status '翻译中' is committed, translation_started
\* is emitted, the row is reloaded for material.url and the capture begins
auto_translate_webpages_start(s) ==
  LET t == tasks[s]
      m == t.mat
      row == Flush(db[m], db[m], TRUE, [status |-> TRANSLATING])
  IN /\ t.kind = "auto_translate_webpages" /\ t.pc = "start"
     /\ IF Exists(m)
        THEN /\ db' = [db EXCEPT ![m] = row]
             /\ published' = Emit({<<"translation_started", m>>})
             /\ received' = Deliver({<<"translation_started", m>>})
             /\ tasks' = [tasks EXCEPT ![s].pc = "capture", ![s].snap = row,
                                       ![s].loaded = TRUE]
        ELSE /\ tasks' = Finish(s)
             /\ UNCHANGED <<db, published, received>>
     /\ UNCHANGED <<WEBSOCKET_ENABLED, rooms, api_cache, commits, wire, arg, ret, resp, budget, ocrSeq>>

\* auto_translate_webpages: both captures return (ok) or one raises
auto_translate_webpages_done(s, ok) ==
  LET t == tasks[s]
      m == t.mat
      status == IF ok THEN TRANSLATED ELSE FAILED
      kwargs == IF ok THEN [translated_image_path |-> "pdf", translation_error |-> NULL]
                ELSE [translation_error |-> "capture"]
  IN /\ t.kind = "auto_translate_webpages" /\ t.pc = "capture"
     /\ db' = [db EXCEPT ![m] = update_material_status(db[m], t.snap, t.loaded, status, kwargs)]
     /\ published' = Emit(StatusEvent(m, db'[m]))
     /\ received' = Deliver(StatusEvent(m, db'[m]))
     /\ tasks' = Finish(s)
     /\ UNCHANGED <<WEBSOCKET_ENABLED, rooms, api_cache, commits, wire, arg, ret, resp, budget, ocrSeq>>

\* --------------------------------------------------------- provider results
\* translate_image_reference: content, an error_code result, a result with
\* no content, or an exception after the last retry
OcrOutcomes == {"ok", "error_code", "empty", "raise"}
\* EntityRecognitionService.recognize_entities: success, a failure marked
\* recoverable, or a failure without the recoverable flag
ErOutcomes == {"success", "recoverable", "fatal"}
\* LLMTranslationService.optimize_translations: a list, or an exception
LlmOutcomes == {"ok", "raise"}

\* check_translation_lock(material_id): is_locked
check_translation_lock(m) == Exists(m) /\ db[m].status = TRANSLATING

\* order in which a query returns the rows of a client
QueryOrder == <<"m1", "p1", "p2", "w1">>

\* --------------------------------------------------------- start_translation
\* material_ids_to_translate for a request naming `ids` ({} = all materials)
material_ids_to_translate(ids) ==
  LET wanted(m) == /\ Exists(m)
                   /\ (ids = {} \/ m \in ids)
                   /\ db[m].type \in {"image", "webpage"}
                   /\ db[m].status \in {UPLOADED, ADDED, "D_PROCESSING"}
  IN SelectSeq(QueryOrder, wanted)

\* POST /api/clients/<id>/materials/translate: answers at once; the thread
\* translate_all_materials_async is started when a material qualifies
start_translation(ids) ==
  LET todo == material_ids_to_translate(ids)
  IN /\ resp' = 200
     /\ IF todo = <<>>
        THEN UNCHANGED <<tasks, budget>>
        ELSE /\ budget > 0 /\ FreeSlots # {}
             /\ budget' = budget - 1
             /\ tasks' = Spawn(Task("translate_all_materials_async", NULL, "next",
                                    NoRow, FALSE, todo, 0))
     /\ UNCHANGED <<db, WEBSOCKET_ENABLED, rooms, api_cache, commits, wire, arg, ret, published, received, ocrSeq>>

\* translate_all_materials_async takes the next id; translate_one_material
\* checks the lock, loads the row, emits translation_started and calls the
\* provider; after the last id translation_completed is emitted
translate_one_material_begin(s) ==
  LET t == tasks[s]
      m == Head(t.queue)
  IN /\ t.kind = "translate_all_materials_async" /\ t.pc = "next"
     /\ IF t.queue = <<>>
        THEN /\ tasks' = Finish(s)
             /\ published' = Emit({<<"translation_completed", NULL>>})
             /\ received' = Deliver({<<"translation_completed", NULL>>})
        ELSE IF ~Exists(m) \/ check_translation_lock(m)
        THEN /\ tasks' = [tasks EXCEPT ![s].queue = Tail(t.queue)]
             /\ UNCHANGED <<published, received>>
        ELSE /\ tasks' = [tasks EXCEPT ![s] =
                   Task(t.kind, m, IF db[m].type = "webpage" THEN "capture" ELSE "ocr",
                        db[m], TRUE, Tail(t.queue), 0)]
             /\ published' = Emit({<<"translation_started", m>>})
             /\ received' = Deliver({<<"translation_started", m>>})
     /\ UNCHANGED <<db, WEBSOCKET_ENABLED, rooms, api_cache, commits, wire, arg, ret, resp, budget, ocrSeq>>

\* translate_one_material, web page: both captures return or one raises
translate_one_material_capture(s, ok) ==
  LET t == tasks[s]
      m == t.mat
      status == IF ok THEN TRANSLATED ELSE FAILED
      kwargs == IF ok THEN [translated_image_path |-> "pdf", translation_error |-> NULL]
                ELSE [translation_error |-> "capture"]
  IN /\ t.kind = "translate_all_materials_async" /\ t.pc = "capture"
     /\ db' = [db EXCEPT ![m] = update_material_status(db[m], t.snap, t.loaded, status, kwargs)]
     /\ published' = Emit(StatusEvent(m, db'[m]))
     /\ received' = Deliver(StatusEvent(m, db'[m]))
     /\ tasks' = [tasks EXCEPT ![s].pc = "next"]
     /\ UNCHANGED <<WEBSOCKET_ENABLED, rooms, api_cache, commits, wire, arg, ret, resp, budget, ocrSeq>>

\* translate_one_material, image: translate_image_reference returned `o`.
\* A failure is stored by update_material_status(FAILED, translation_error);
\* a success is stored as 'translated' and, when the reloaded row has
\* entity_recognition_enabled, a second commit sets entity_recognizing and
\* recognize_entities is called
translate_one_material_ocr(s, o) ==
  LET t == tasks[s]
      m == t.mat
      gen == ocrSeq + 1
      done == update_material_status(db[m], t.snap, t.loaded, TRANSLATED,
                [translation_text_info |-> gen, translation_error |-> NULL,
                 processing_step |-> "translated"])
      er == Flush(done, done, TRUE, [processing_step |-> "entity_recognizing"])
  IN /\ t.kind = "translate_all_materials_async" /\ t.pc = "ocr"
     /\ IF o = "ok"
        THEN /\ ocrSeq' = gen
             /\ published' = Emit(StatusEvent(m, done))
             /\ received' = Deliver(StatusEvent(m, done))
             /\ IF done.entity_recognition_enabled
                THEN /\ db' = [db EXCEPT ![m] = er]
                     /\ tasks' = [tasks EXCEPT ![s].pc = "er", ![s].loaded = FALSE,
                                               ![s].aux = gen]
                ELSE /\ db' = [db EXCEPT ![m] = done]
                     /\ tasks' = [tasks EXCEPT ![s].pc = "next"]
        ELSE /\ db' = [db EXCEPT ![m] =
                   update_material_status(db[m], t.snap, t.loaded, FAILED,
                                          [translation_error |-> o])]
             /\ published' = Emit(StatusEvent(m, db'[m]))
             /\ received' = Deliver(StatusEvent(m, db'[m]))
             /\ tasks' = [tasks EXCEPT ![s].pc = "next"]
             /\ UNCHANGED ocrSeq
     /\ UNCHANGED <<WEBSOCKET_ENABLED, rooms, api_cache, commits, wire, arg, ret, resp, budget>>

\* translate_one_material: recognize_entities returned `o`.  On a failure the
\* error is committed with step 'translated'; with WEBSOCKET_ENABLED the call
\* emit_material_updated(client_id, id, processing_step=..., material=...,
\* entity_recognition_error=...) then raises TypeError, the inner handler
\* stores str(e) and raises it again, and the outer handler ends in
\* update_material_status(FAILED, translation_error=str(e))
translate_one_material_er(s, o) ==
  LET t == tasks[s]
      m == t.mat
      ok == Flush(db[m], t.snap, FALSE,
                  [entity_recognition_result |-> "fast",
                   processing_step |-> "entity_pending_confirm",
                   entity_recognition_error |-> NULL])
      bad == Flush(db[m], t.snap, FALSE,
                   [entity_recognition_error |-> o,
                    processing_step |-> "translated",
                    entity_recognition_triggered |-> TRUE])
      bad2 == Flush(bad, bad, TRUE, [entity_recognition_error |-> "TypeError",
                                     processing_step |-> "translated",
                                     entity_recognition_triggered |-> TRUE])
      bad3 == update_material_status(bad2, bad2, TRUE, FAILED,
                                     [translation_error |-> "TypeError"])
  IN /\ t.kind = "translate_all_materials_async" /\ t.pc = "er"
     /\ IF o = "success"
        THEN /\ db' = [db EXCEPT ![m] = ok]
             /\ UNCHANGED <<published, received>>
        ELSE IF WEBSOCKET_ENABLED
        THEN /\ db' = [db EXCEPT ![m] = bad3]
             /\ published' = Emit(StatusEvent(m, bad3))
             /\ received' = Deliver(StatusEvent(m, bad3))
        ELSE /\ db' = [db EXCEPT ![m] = bad]
             /\ UNCHANGED <<published, received>>
     /\ tasks' = [tasks EXCEPT ![s].pc = "next"]
     /\ UNCHANGED <<WEBSOCKET_ENABLED, rooms, api_cache, commits, wire, arg, ret, resp, budget, ocrSeq>>

\* ------------------------------------------------ POST /entity-recognition
\* start_entity_recognition up to the provider call: 400 unless enabled and
\* OCR done; entity_recognizing is committed and the row reloaded
start_entity_recognition(m) ==
  /\ Exists(m)
  /\ IF ~db[m].entity_recognition_enabled \/ db[m].translation_text_info = 0
     THEN /\ resp' = 400
          /\ UNCHANGED <<db, tasks, budget>>
     ELSE /\ budget > 0 /\ FreeSlots # {}
          /\ budget' = budget - 1
          /\ db' = [db EXCEPT ![m].processing_step = "entity_recognizing"]
          /\ tasks' = Spawn(Task("start_entity_recognition", m, "er", db'[m], TRUE,
                                 <<>>, db[m].translation_text_info))
          /\ UNCHANGED resp
  /\ UNCHANGED <<WEBSOCKET_ENABLED, rooms, api_cache, commits, wire, arg, ret, published, received, ocrSeq>>

\* start_entity_recognition after recognize_entities returned `o`
start_entity_recognition_done(s, o) ==
  LET t == tasks[s]
      m == t.mat
      assigns ==
        CASE o = "success" ->
               [entity_recognition_result |-> "fast",
                processing_step |-> "entity_pending_confirm",
                entity_recognition_error |-> NULL]
          [] o = "recoverable" ->
               [entity_recognition_error |-> o,
                entity_recognition_enabled |-> FALSE,
                processing_step |-> "translated"]
          [] OTHER ->
               [entity_recognition_error |-> o, processing_step |-> "failed"]
  IN /\ t.kind = "start_entity_recognition"
     /\ db' = [db EXCEPT ![m] = Flush(db[m], t.snap, t.loaded, assigns)]
     /\ resp' = CASE o = "success" -> 200 [] o = "recoverable" -> 503 [] OTHER -> 500
     /\ tasks' = Finish(s)
     /\ UNCHANGED <<WEBSOCKET_ENABLED, rooms, api_cache, commits, wire, arg, ret, published, received, budget, ocrSeq>>

\* ------------------------------- POST /entity-recognition/fast and /deep
\* entity_recognition_fast / entity_recognition_deep up to the provider call:
\* 400 without OCR result; entity_recognizing and triggered are committed;
\* with WEBSOCKET_ENABLED the call emit_material_updated(client_id, id,
\* processing_step=..., material=...) raises TypeError and the handler
\* answers 500
entity_recognition_begin(m, mode) ==
  /\ Exists(m)
  /\ IF db[m].translation_text_info = 0
     THEN /\ resp' = 400
          /\ UNCHANGED <<db, tasks, budget>>
     ELSE /\ budget > 0
          /\ budget' = budget - 1
          /\ db' = [db EXCEPT ![m].processing_step = "entity_recognizing",
                              ![m].entity_recognition_triggered = TRUE]
          /\ IF WEBSOCKET_ENABLED
             THEN /\ resp' = 500
                  /\ UNCHANGED tasks
             ELSE /\ FreeSlots # {}
                  /\ tasks' = Spawn(Task(mode, m, "er", NoRow, FALSE, <<>>,
                                         db[m].translation_text_info))
                  /\ UNCHANGED resp
  /\ UNCHANGED <<WEBSOCKET_ENABLED, rooms, api_cache, commits, wire, arg, ret, published, received, ocrSeq>>

entity_recognition_fast(m) == entity_recognition_begin(m, "entity_recognition_fast")

entity_recognition_deep(m) == entity_recognition_begin(m, "entity_recognition_deep")

\* entity_recognition_fast after recognize_entities(mode="fast") returned `o`:
\* a success stores the result and stops at entity_pending_confirm; a failure
\* answers 500 and writes nothing
entity_recognition_fast_done(s, o) ==
  LET t == tasks[s]
      m == t.mat
  IN /\ t.kind = "entity_recognition_fast"
     /\ IF o = "success"
        THEN /\ db' = [db EXCEPT ![m] =
                   Flush(db[m], t.snap, t.loaded,
                         [entity_recognition_result |-> "fast",
                          processing_step |-> "entity_pending_confirm"])]
             /\ resp' = 200
        ELSE /\ resp' = 500
             /\ UNCHANGED db
     /\ tasks' = Finish(s)
     /\ UNCHANGED <<WEBSOCKET_ENABLED, rooms, api_cache, commits, wire, arg, ret, published, received, budget, ocrSeq>>

\* entity_recognition_deep after recognize_entities(mode="deep") returned `o`:
\* a success is confirmed automatically (the result of recognize_entities has
\* no translationGuidance key, so entity_user_edits is not assigned) and the
\* thread trigger_llm_translation is started in place of the handler
entity_recognition_deep_done(s, o) ==
  LET t == tasks[s]
      m == t.mat
  IN /\ t.kind = "entity_recognition_deep"
     /\ IF o = "success"
        THEN /\ db' = [db EXCEPT ![m] =
                   Flush(db[m], t.snap, t.loaded,
                         [entity_recognition_result |-> "deep",
                          entity_recognition_confirmed |-> TRUE,
                          processing_step |-> "entity_confirmed"])]
             /\ resp' = 200
             /\ tasks' = [tasks EXCEPT ![s] =
                   Task("trigger_llm_translation", m, "start", NoRow, FALSE, <<>>, 0)]
        ELSE /\ resp' = 500
             /\ tasks' = Finish(s)
             /\ UNCHANGED db
     /\ UNCHANGED <<WEBSOCKET_ENABLED, rooms, api_cache, commits, wire, arg, ret, published, received, budget, ocrSeq>>

\* ------------------------------------------------------- confirm_entities
\* other rows of the PDF session of m
Siblings(m) ==
  {x \in Mats : /\ x # m /\ Exists(x) /\ db[m].pdf_session_id # NULL
                /\ db[x].pdf_session_id = db[m].pdf_session_id}

\* POST /api/materials/<id>/confirm-entities with translationGuidance keys
\* `keys` (a body without translationGuidance gives {}): 400 outside
\* entity_pending_confirm; the edits are stored, every other page of the PDF
\* session receives them, and the thread trigger_llm_translation is started
\* for the requested material
confirm_entities(m, keys) ==
  LET user_edits == Edits(m, keys)
  IN /\ Exists(m)
     /\ IF db[m].processing_step # "entity_pending_confirm"
        THEN /\ resp' = 400
             /\ UNCHANGED <<db, tasks, budget>>
        ELSE /\ budget > 0 /\ FreeSlots # {}
             /\ budget' = budget - 1
             /\ resp' = 200
             /\ db' = [x \in Mats |->
                  IF x = m
                  THEN [db[x] EXCEPT !.entity_user_edits = user_edits,
                                     !.entity_recognition_confirmed = TRUE,
                                     !.processing_step = "entity_confirmed"]
                  ELSE IF x \in Siblings(m)
                  THEN [db[x] EXCEPT !.entity_user_edits = user_edits,
                                     !.entity_recognition_confirmed = TRUE,
                                     !.processing_step =
                                        IF @ = "entity_pending_confirm"
                                        THEN "entity_confirmed" ELSE @]
                  ELSE db[x]]
             /\ tasks' = Spawn(Task("trigger_llm_translation", m, "start", NoRow,
                                    FALSE, <<>>, 0))
     /\ UNCHANGED <<WEBSOCKET_ENABLED, rooms, api_cache, commits, wire, arg, ret, published, received, ocrSeq>>

\* row written by the exception handler of trigger_llm_translation
llm_thread_failed(row, snap, loaded) ==
  Flush(row, snap, loaded,
        [status |-> FAILED, processing_step |-> "failed",
         translation_error |-> "LLM"])

\* trigger_llm_translation up to the provider call: llm_translating is
\* committed, llm_started emitted, the row reloaded; json.loads of a NULL
\* translation_text_info raises and the handler marks the row failed
trigger_llm_translation_start(s) ==
  LET t == tasks[s]
      m == t.mat
      row == [db[m] EXCEPT !.processing_step = "llm_translating"]
  IN /\ t.kind = "trigger_llm_translation" /\ t.pc = "start"
     /\ IF ~Exists(m)
        THEN /\ tasks' = Finish(s)
             /\ UNCHANGED <<db, published, received>>
        ELSE /\ published' = Emit({<<"llm_started", m>>})
             /\ received' = Deliver({<<"llm_started", m>>})
             /\ IF row.translation_text_info = 0
                THEN /\ db' = [db EXCEPT ![m] = llm_thread_failed(row, row, TRUE)]
                     /\ tasks' = Finish(s)
                ELSE /\ db' = [db EXCEPT ![m] = row]
                     /\ tasks' = [tasks EXCEPT ![s] =
                           Task(t.kind, m, "llm", row, TRUE, <<>>,
                                row.translation_text_info)]
     /\ UNCHANGED <<WEBSOCKET_ENABLED, rooms, api_cache, commits, wire, arg, ret, resp, budget, ocrSeq>>

\* trigger_llm_translation after optimize_translations returned or raised
trigger_llm_translation_done(s, o) ==
  LET t == tasks[s]
      m == t.mat
  IN /\ t.kind = "trigger_llm_translation" /\ t.pc = "llm"
     /\ IF o = "ok"
        THEN /\ db' = [db EXCEPT ![m] =
                   Flush(db[m], t.snap, t.loaded,
                         [llm_translation_result |-> LLMResult(t.aux),
                          processing_step |-> "llm_translated",
                          status |-> TRANSLATED])]
             /\ published' = Emit({<<"llm_completed", m>>})
             /\ received' = Deliver({<<"llm_completed", m>>})
        ELSE /\ db' = [db EXCEPT ![m] = llm_thread_failed(db[m], t.snap, t.loaded)]
             /\ UNCHANGED <<published, received>>
     /\ tasks' = Finish(s)
     /\ UNCHANGED <<WEBSOCKET_ENABLED, rooms, api_cache, commits, wire, arg, ret, resp, budget, ocrSeq>>

\* -------------------------------------------- toggle_entity_recognition
\* POST /api/materials/<id>/enable-entity-recognition {enabled, mode}
toggle_entity_recognition(m, enabled, mode) ==
  /\ Exists(m) /\ budget > 0
  /\ budget' = budget - 1
  /\ resp' = 200
  /\ db' = [db EXCEPT ![m] =
       IF enabled
       THEN [@ EXCEPT !.entity_recognition_enabled = TRUE,
                      !.entity_recognition_mode = mode]
       ELSE [@ EXCEPT !.entity_recognition_enabled = FALSE,
                      !.entity_recognition_mode = NULL,
                      !.entity_recognition_result = NULL,
                      !.entity_recognition_confirmed = FALSE,
                      !.entity_recognition_triggered = FALSE,
                      !.entity_user_edits = NoEdits,
                      !.entity_recognition_error = NULL]]
  /\ UNCHANGED <<tasks, WEBSOCKET_ENABLED, rooms, api_cache, commits, wire, arg, ret, published, received, ocrSeq>>

\* ------------------------------------------------- llm_translate_material
\* POST /api/materials/<id>/llm-translate up to the provider call: 409 when
\* locked, the stored result when there is one, 400 when recognition is
\* enabled and unconfirmed or OCR is missing; llm_started is emitted
llm_translate_material(m) ==
  /\ Exists(m)
  /\ IF check_translation_lock(m)
     THEN /\ resp' = 409
          /\ UNCHANGED <<tasks, published, received, budget>>
     ELSE IF ~db[m].llm_translation_result.null
     THEN /\ resp' = 200
          /\ UNCHANGED <<tasks, published, received, budget>>
     ELSE IF \/ (db[m].entity_recognition_enabled /\ ~db[m].entity_recognition_confirmed)
             \/ db[m].translation_text_info = 0
     THEN /\ resp' = 400
          /\ UNCHANGED <<tasks, published, received, budget>>
     ELSE /\ budget > 0 /\ FreeSlots # {}
          /\ budget' = budget - 1
          /\ published' = Emit({<<"llm_started", m>>})
          /\ received' = Deliver({<<"llm_started", m>>})
          /\ tasks' = Spawn(Task("llm_translate_material", m, "llm", db[m], TRUE,
                                 <<>>, db[m].translation_text_info))
          /\ UNCHANGED resp
  /\ UNCHANGED <<db, WEBSOCKET_ENABLED, rooms, api_cache, commits, wire, arg, ret, ocrSeq>>

\* llm_translate_material after optimize_translations returned or raised
llm_translate_material_done(s, o) ==
  LET t == tasks[s]
      m == t.mat
  IN /\ t.kind = "llm_translate_material"
     /\ IF o = "ok"
        THEN /\ db' = [db EXCEPT ![m] =
                   update_material_status(db[m], t.snap, t.loaded, TRANSLATED,
                     [llm_translation_result |-> LLMResult(t.aux),
                      processing_step |-> "translated"])]
             /\ published' = Emit(StatusEvent(m, db'[m]) \cup {<<"llm_completed", m>>})
             /\ received' = Deliver(StatusEvent(m, db'[m]) \cup {<<"llm_completed", m>>})
             /\ resp' = 200
        ELSE /\ published' = Emit({<<"llm_error", m>>})
             /\ received' = Deliver({<<"llm_error", m>>})
             /\ resp' = 500
             /\ UNCHANGED db
     /\ tasks' = Finish(s)
     /\ UNCHANGED <<WEBSOCKET_ENABLED, rooms, api_cache, commits, wire, arg, ret, budget, ocrSeq>>

\* --------------------------------------------------- retranslate_material
\* POST /api/materials/<id>/retranslate up to the OCR call: 409 when locked,
\* 400 for a material that is neither image nor pdf
retranslate_material(m) ==
  /\ Exists(m)
  /\ IF check_translation_lock(m)
     THEN /\ resp' = 409
          /\ UNCHANGED <<tasks, budget>>
     ELSE IF db[m].type \notin {"image", "pdf"}
     THEN /\ resp' = 400
          /\ UNCHANGED <<tasks, budget>>
     ELSE /\ budget > 0 /\ FreeSlots # {}
          /\ budget' = budget - 1
          /\ tasks' = Spawn(Task("retranslate_material", m, "ocr", db[m], TRUE, <<>>, 0))
          /\ UNCHANGED resp
  /\ UNCHANGED <<db, WEBSOCKET_ENABLED, rooms, api_cache, commits, wire, arg, ret, published, received, ocrSeq>>

\* retranslate_material after translate_image_reference returned `o`: an
\* error result or empty content is stored by update_material_status(FAILED);
\* an exception is answered 500 after a rollback; content clears the edit
\* fields, is stored as 'translated', and optimize_translations is called
retranslate_material_ocr(s, o) ==
  LET t == tasks[s]
      m == t.mat
      gen == ocrSeq + 1
      cleared == Flush(db[m], t.snap, t.loaded,
                       [final_image_path |-> NULL, has_edited_version |-> FALSE,
                        edited_regions |-> NULL])
  IN /\ t.kind = "retranslate_material" /\ t.pc = "ocr"
     /\ CASE o = "ok" ->
               /\ db' = [db EXCEPT ![m] =
                     update_material_status(cleared, t.snap, t.loaded, TRANSLATED,
                       [translation_text_info |-> gen, translation_error |-> NULL,
                        processing_step |-> "translated"])]
               /\ published' = Emit(StatusEvent(m, db'[m]))
               /\ received' = Deliver(StatusEvent(m, db'[m]))
               /\ ocrSeq' = gen
               /\ tasks' = [tasks EXCEPT ![s].pc = "llm", ![s].loaded = FALSE,
                                         ![s].aux = gen]
               /\ UNCHANGED resp
          [] o = "raise" ->
               /\ resp' = 500
               /\ tasks' = Finish(s)
               /\ UNCHANGED <<db, published, received, ocrSeq>>
          [] OTHER ->
               /\ db' = [db EXCEPT ![m] =
                     update_material_status(db[m], t.snap, t.loaded, FAILED,
                                            [translation_error |-> o])]
               /\ published' = Emit(StatusEvent(m, db'[m]))
               /\ received' = Deliver(StatusEvent(m, db'[m]))
               /\ resp' = IF o = "error_code" THEN 500 ELSE 400
               /\ tasks' = Finish(s)
               /\ UNCHANGED ocrSeq
     /\ UNCHANGED <<WEBSOCKET_ENABLED, rooms, api_cache, commits, wire, arg, ret, budget>>

\* retranslate_material after optimize_translations returned or raised
retranslate_material_llm(s, o) ==
  LET t == tasks[s]
      m == t.mat
  IN /\ t.kind = "retranslate_material" /\ t.pc = "llm"
     /\ IF o = "ok"
        THEN /\ db' = [db EXCEPT ![m] =
                   update_material_status(db[m], t.snap, t.loaded, TRANSLATED,
                     [llm_translation_result |-> LLMResult(t.aux),
                      processing_step |-> "translated"])]
             /\ published' = Emit(StatusEvent(m, db'[m]))
             /\ received' = Deliver(StatusEvent(m, db'[m]))
             /\ resp' = 200
        ELSE /\ resp' = 500
             /\ UNCHANGED <<db, published, received>>
     /\ tasks' = Finish(s)
     /\ UNCHANGED <<WEBSOCKET_ENABLED, rooms, api_cache, commits, wire, arg, ret, budget, ocrSeq>>

\* -------------------------------------------------------- rotate_material
\* POST /api/materials/<id>/rotate: results and edits are cleared, status is
\* '已上传' and processing_step is NULL
rotate_material(m) ==
  /\ Exists(m)
  /\ IF db[m].type \notin {"image", "pdf"}
     THEN /\ resp' = 400
          /\ UNCHANGED <<db, budget>>
     ELSE /\ budget > 0
          /\ budget' = budget - 1
          /\ resp' = 200
          /\ db' = [db EXCEPT ![m] =
               [@ EXCEPT !.translation_text_info = 0,
                         !.llm_translation_result = NoLLM,
                         !.final_image_path = NULL,
                         !.has_edited_version = FALSE,
                         !.edited_regions = NULL,
                         !.status = UPLOADED,
                         !.processing_step = NULL]]
  /\ UNCHANGED <<tasks, WEBSOCKET_ENABLED, rooms, api_cache, commits, wire, arg, ret, published, received, ocrSeq>>

\* ------------------------------------- confirm_material / unconfirm_material
\* the rows a confirm or unconfirm of m writes: every page of a PDF session
Pages(m) == {m} \cup Siblings(m)

\* the row confirm_material writes for one page; `plain` = the requested
\* material has no pdf_session_id
confirm_page(row, plain, translation_type) ==
  [row EXCEPT
     !.confirmed = TRUE,
     !.status = CONFIRMED,
     !.selected_result =
        IF plain /\ translation_type \in {"api", "latex"} /\ row.type = "image"
        THEN translation_type ELSE @]

\* unconfirm_material as it would be if it also reset the edited version
unconfirm_page_clearing_edits(row) ==
  [row EXCEPT !.confirmed = FALSE, !.status = TRANSLATED,
              !.has_edited_version = FALSE, !.edited_regions = NULL,
              !.final_image_path = NULL]

\* the row unconfirm_material writes for one page
unconfirm_page(row) == [row EXCEPT !.confirmed = FALSE, !.status = TRANSLATED]

\* POST /api/materials/<id>/confirm {translation_type}
confirm_material(m, translation_type) ==
  /\ Exists(m) /\ budget > 0
  /\ budget' = budget - 1
  /\ resp' = 200
  /\ db' = [x \in Mats |->
       IF x \notin Pages(m) THEN db[x]
       ELSE confirm_page(db[x], db[m].pdf_session_id = NULL, translation_type)]
  /\ UNCHANGED <<tasks, WEBSOCKET_ENABLED, rooms, api_cache, commits, wire, arg, ret, published, received, ocrSeq>>

\* POST /api/materials/<id>/unconfirm
unconfirm_material(m) ==
  /\ Exists(m) /\ budget > 0
  /\ budget' = budget - 1
  /\ resp' = 200
  /\ db' = [x \in Mats |-> IF x \notin Pages(m) THEN db[x] ELSE unconfirm_page(db[x])]
  /\ UNCHANGED <<tasks, WEBSOCKET_ENABLED, rooms, api_cache, commits, wire, arg, ret, published, received, ocrSeq>>

\* ------------------------------------------------- save_material_regions
\* json.dumps(regions, ensure_ascii=False) of a list of regions: the text of
\* the list in brackets ("" is the empty list, dumped as "[]")
json_dumps(regions) == "[" \o regions \o "]"

\* POST /api/materials/<id>/save-regions {regions}: the regions are committed;
\* with WEBSOCKET_ENABLED the call emit_material_updated(client_id,
\* material_id=..., edited_regions=..., has_edited_version=True) then raises
\* TypeError and the handler answers 500
save_material_regions(m, regions) ==
  /\ Exists(m) /\ budget > 0
  /\ budget' = budget - 1
  /\ db' = [db EXCEPT ![m].edited_regions = json_dumps(regions),
                      ![m].has_edited_version = TRUE,
                      ![m].selected_result = "api"]
  /\ resp' = IF WEBSOCKET_ENABLED THEN 500 ELSE 200
  /\ UNCHANGED <<tasks, WEBSOCKET_ENABLED, rooms, commits, wire, arg, ret, published, received, ocrSeq>>
  /\ api_cache' = NoCache

\* ------------------------------------------------------- update_material
\* PUT /api/materials/<id> with a body holding `fields` (status, confirmed)
update_material(m, fields) ==
  /\ Exists(m) /\ budget > 0
  /\ budget' = budget - 1
  /\ resp' = 200
  /\ db' = [db EXCEPT ![m] = Flush(@, @, FALSE, fields)]
  /\ UNCHANGED <<tasks, WEBSOCKET_ENABLED, rooms, api_cache, commits, wire, arg, ret, published, received, ocrSeq>>

\* ---------------------------------------------------------- request bodies
\* translationGuidance bodies a client sends: all four keys, or none
GuidanceInputs == {GuidanceKeys, {}}
\* bodies of toggle_entity_recognition
ToggleInputs == {<<TRUE, "standard">>, <<TRUE, "deep">>, <<FALSE, "standard">>}
\* translation_type of a confirm request
TranslationTypes == {"api", "latex"}
\* regions payloads of save-regions
RegionInputs == {"r1", "r2"}
\* bodies of PUT /api/materials/<id>
UpdateInputs == {[confirmed |-> TRUE], [confirmed |-> FALSE], [status |-> TRANSLATED]}

\* pipeline of one uploaded image
Next ==
  \/ \E m \in Mats : upload_files_image(m)
  \/ \E ids \in {{}} \cup {{m} : m \in Mats} : start_translation(ids)
  \/ \E s \in Slots : translate_one_material_begin(s)
  \/ \E s \in Slots, o \in OcrOutcomes : translate_one_material_ocr(s, o)
  \/ \E s \in Slots, o \in ErOutcomes : translate_one_material_er(s, o)
  \/ \E m \in Mats, b \in ToggleInputs : toggle_entity_recognition(m, b[1], b[2])
  \/ \E m \in Mats : start_entity_recognition(m)
  \/ \E s \in Slots, o \in ErOutcomes : start_entity_recognition_done(s, o)
  \/ \E m \in Mats : entity_recognition_fast(m)
  \/ \E s \in Slots, o \in ErOutcomes : entity_recognition_fast_done(s, o)
  \/ \E m \in Mats : entity_recognition_deep(m)
  \/ \E s \in Slots, o \in ErOutcomes : entity_recognition_deep_done(s, o)
  \/ \E m \in Mats, keys \in GuidanceInputs : confirm_entities(m, keys)
  \/ \E s \in Slots : trigger_llm_translation_start(s)
  \/ \E s \in Slots, o \in LlmOutcomes : trigger_llm_translation_done(s, o)
  \/ \E m \in Mats : llm_translate_material(m)
  \/ \E s \in Slots, o \in LlmOutcomes : llm_translate_material_done(s, o)
  \/ \E m \in Mats : retranslate_material(m)
  \/ \E s \in Slots, o \in OcrOutcomes : retranslate_material_ocr(s, o)
  \/ \E s \in Slots, o \in LlmOutcomes : retranslate_material_llm(s, o)
  \/ \E m \in Mats : rotate_material(m)
  \/ \E m \in Mats, ty \in TranslationTypes : confirm_material(m, ty)
  \/ \E m \in Mats : unconfirm_material(m)
  \/ \E m \in Mats, r \in RegionInputs : save_material_regions(m, r)
  \/ \E m \in Mats, f \in UpdateInputs : update_material(m, f)

Spec == Init /\ [][Next]_vars

\* a step of a running handler or background thread of the image pipeline
Step ==
  \E s \in Slots :
    \/ translate_one_material_begin(s)
    \/ \E o \in OcrOutcomes : translate_one_material_ocr(s, o)
    \/ \E o \in ErOutcomes : translate_one_material_er(s, o)
    \/ \E o \in ErOutcomes : start_entity_recognition_done(s, o)
    \/ \E o \in ErOutcomes : entity_recognition_fast_done(s, o)
    \/ \E o \in ErOutcomes : entity_recognition_deep_done(s, o)
    \/ trigger_llm_translation_start(s)
    \/ \E o \in LlmOutcomes : trigger_llm_translation_done(s, o)
    \/ \E o \in LlmOutcomes : llm_translate_material_done(s, o)
    \/ \E o \in OcrOutcomes : retranslate_material_ocr(s, o)
    \/ \E o \in LlmOutcomes : retranslate_material_llm(s, o)

\* the image pipeline when every started thread and handler keeps running and
\* every provider call returns; clients may stop sending requests at any time
FairSpec == Init /\ [][Next]_vars /\ WF_vars(Step)

\* a thread trigger_llm_translation is started or running
LlmThreadRunning == \E s \in Slots : tasks[s].kind = "trigger_llm_translation"

\* the requests that lead through the entity gate
GateRequest ==
  \/ \E m \in Mats : upload_files_image(m)
  \/ start_translation({})
  \/ \E m \in Mats : entity_recognition_fast(m)
  \/ \E m \in Mats, keys \in GuidanceInputs : confirm_entities(m, keys)

\* a step of a thread or handler these requests start
GateStep ==
  \E s \in Slots :
    \/ translate_one_material_begin(s)
    \/ \E o \in OcrOutcomes : translate_one_material_ocr(s, o)
    \/ \E o \in ErOutcomes : entity_recognition_fast_done(s, o)
    \/ trigger_llm_translation_start(s)
    \/ \E o \in LlmOutcomes : trigger_llm_translation_done(s, o)

\* no request arrives while a thread trigger_llm_translation is started or
\* running; threads and handlers already running go on
QuietNext ==
  \/ ~LlmThreadRunning /\ GateRequest
  \/ GateStep

\* the automatic refinement without further user action: every started
\* thread and handler keeps running and every provider call returns
QuietSpec == InitWith(MaxQuietReq) /\ [][QuietNext]_vars /\ WF_vars(GateStep)

\* a request on the pages of one uploaded PDF
PdfRequest ==
  \/ upload_files_pdf
  \/ \E ids \in {{}} \cup {{m} : m \in PdfIds} : start_translation(ids)
  \/ \E m \in PdfIds : entity_recognition_fast(m)
  \/ \E m \in PdfIds, keys \in GuidanceInputs : confirm_entities(m, keys)
  \/ \E m \in PdfIds, ty \in TranslationTypes : confirm_material(m, ty)
  \/ \E m \in PdfIds : unconfirm_material(m)
  \/ \E m \in PdfIds, f \in UpdateInputs : update_material(m, f)

\* a step of a thread or handler of the PDF pipeline
PdfStep ==
  \E s \in Slots :
    \/ process_pdf_async_page(s)
    \/ process_pdf_async_raise(s)
    \/ translate_one_material_begin(s)
    \/ \E o \in OcrOutcomes : translate_one_material_ocr(s, o)
    \/ \E o \in ErOutcomes : entity_recognition_fast_done(s, o)
    \/ trigger_llm_translation_start(s)
    \/ \E o \in LlmOutcomes : trigger_llm_translation_done(s, o)

NextPdf == PdfRequest \/ PdfStep

\* the two pages of one uploaded PDF
SpecPdf == InitWith(MaxPdfReq) /\ [][NextPdf]_vars

\* the PDF pipeline when every started thread and handler keeps running
FairPdf == InitWith(MaxPdfReq) /\ [][NextPdf]_vars /\ WF_vars(PdfStep)

\* the requests that lead one image to a confirmed translation and back
ReviewRequest ==
  \/ \E m \in Mats : upload_files_image(m)
  \/ start_translation({})
  \/ \E m \in Mats : entity_recognition_fast(m)
  \/ \E m \in Mats, keys \in GuidanceInputs : confirm_entities(m, keys)
  \/ \E m \in Mats, r \in RegionInputs : save_material_regions(m, r)
  \/ \E m \in Mats, ty \in TranslationTypes : confirm_material(m, ty)
  \/ \E m \in Mats : unconfirm_material(m)

\* translation, review, confirm and unconfirm of one uploaded image
ReviewSpec == InitWith(MaxReviewReq) /\ [][ReviewRequest \/ GateStep]_vars

\* one web page added by URL
NextWeb ==
  \/ \E m \in Mats : upload_urls(m)
  \/ \E s \in Slots : auto_translate_webpages_start(s)
  \/ \E s \in Slots, ok \in BOOLEAN : auto_translate_webpages_done(s, ok)
  \/ \E ids \in {{}} \cup {{m} : m \in Mats} : start_translation(ids)
  \/ \E s \in Slots : translate_one_material_begin(s)
  \/ \E s \in Slots, ok \in BOOLEAN : translate_one_material_capture(s, ok)

SpecWeb == Init /\ [][NextWeb]_vars

\* ======================================================================
\* Properties
\* ======================================================================

\* the running activities that execute a stage (split, OCR, recognition, LLM)
\* for material m
StageTasks(m) == {s \in Slots : tasks[s].kind # "idle" /\ tasks[s].mat = m}

\* C1: every material whose processing_step is splitting, translating,
\* entity_recognizing or llm_translating has exactly one running stage task
C1_ExactlyOneStageTask ==
  \A m \in Mats :
    (Exists(m) /\ db[m].processing_step \in PROCESSING_STATES)
      => Cardinality(StageTasks(m)) = 1

\* a stage-start request for m is handled in this step
StageStartRequest(m) ==
  \/ start_translation({m})
  \/ retranslate_material(m)
  \/ llm_translate_material(m)
  \/ start_entity_recognition(m)
  \/ entity_recognition_fast(m)
  \/ entity_recognition_deep(m)

\* C2: a stage-start request for a material in a processing state is answered
\* 409, starts no provider call and leaves every field of the row unchanged
C2_ProcessingRefused ==
  [][\A m \in Mats :
       (Exists(m) /\ db[m].processing_step \in PROCESSING_STATES /\ StageStartRequest(m))
         => (resp' = 409 /\ tasks' = tasks /\ db' = db)]_vars

\* the threads and handlers that write through update_material_status
StatusWriters ==
  {"auto_translate_webpages", "translate_all_materials_async",
   "llm_translate_material", "retranslate_material"}

\* C3: of two updates of one material that both read version v only one
\* commits: an update_material_status call whose copy of the row carries an
\* older version than the stored row fails and writes nothing
C3_StaleUpdateRejected ==
  [][\A s \in Slots :
       (/\ tasks[s].kind \in StatusWriters /\ tasks[s].loaded
        /\ Exists(tasks[s].mat)
        /\ tasks[s].snap.version < db[tasks[s].mat].version
        /\ tasks'[s] # tasks[s])
         => db'[tasks[s].mat] = db[tasks[s].mat]]_vars

\* a committing operation is executed in this step: a stage write, a PDF
\* split completion, confirm, unconfirm, save_regions, confirm_entities,
\* rotate or retranslate
CommittingOperation ==
  \/ Step
  \/ \E s \in Slots : process_pdf_async_page(s)
  \/ \E m \in Mats, ty \in TranslationTypes : confirm_material(m, ty)
  \/ \E m \in Mats : unconfirm_material(m)
  \/ \E m \in Mats, r \in RegionInputs : save_material_regions(m, r)
  \/ \E m \in Mats, keys \in GuidanceInputs : confirm_entities(m, keys)
  \/ \E m \in Mats : rotate_material(m)

\* C4: every committing operation that changes a row increases its version
\* by exactly 1, and the version of a row never decreases
C4_VersionStepsByOne ==
  [][\A m \in Mats :
       Exists(m) =>
         /\ db'[m].version >= db[m].version
         /\ (CommittingOperation /\ db'[m] # db[m])
              => db'[m].version = db[m].version + 1]_vars

\* C5: the display status of every material equals
\* STATUS_DISPLAY[processing_step]
C5_StatusIsDisplayOfStep ==
  \A m \in Mats : Exists(m) => db[m].status = STATUS_DISPLAY(db[m].processing_step)

\* C6: while a material is in entity_pending_confirm no LLM call is started
\* for it and its step does not become llm_translating or llm_translated
C6_EntityGate ==
  [][\A m \in Mats :
       (Exists(m) /\ db[m].processing_step = "entity_pending_confirm")
         => /\ db'[m].processing_step \notin {"llm_translating", "llm_translated"}
            /\ \A s \in Slots :
                 (tasks'[s].mat = m /\ tasks'[s].pc = "llm") => tasks[s].pc = "llm"]_vars

\* C8: entity_recognition_confirmed implies that entity_user_edits is stored
\* and its translationGuidance has the keys persons, locations,
\* organizations and terms
C8_ConfirmedHasGuidance ==
  \A m \in Mats :
    (Exists(m) /\ db[m].entity_recognition_confirmed)
      => /\ ~db[m].entity_user_edits.null
         /\ GuidanceKeys \subseteq db[m].entity_user_edits.translationGuidance

\* C9: every material that enters a processing state eventually leaves it
C9_ProcessingEnds ==
  \A m \in Mats :
    (Exists(m) /\ db[m].processing_step \in PROCESSING_STATES)
      ~> (~Exists(m) \/ db[m].processing_step \notin PROCESSING_STATES)

\* a stage of the task in slot s ends in failure in this step
StageFailure(s) ==
  \/ process_pdf_async_raise(s)
  \/ \E o \in OcrOutcomes \ {"ok"} : translate_one_material_ocr(s, o)
  \/ \E o \in ErOutcomes \ {"success"} : translate_one_material_er(s, o)
  \/ \E o \in ErOutcomes \ {"success"} : start_entity_recognition_done(s, o)
  \/ \E o \in ErOutcomes \ {"success"} : entity_recognition_fast_done(s, o)
  \/ \E o \in ErOutcomes \ {"success"} : entity_recognition_deep_done(s, o)
  \/ trigger_llm_translation_done(s, "raise")
  \/ llm_translate_material_done(s, "raise")
  \/ \E o \in OcrOutcomes \ {"ok"} : retranslate_material_ocr(s, o)
  \/ retranslate_material_llm(s, "raise")

\* events that report a failure of material m
FailureEvents(m) == {<<"material_error", m>>, <<"llm_error", m>>, <<"material_updated", m>>}

\* C10: when a stage fails, a failure event for the material is published or
\* the row carries a translation_error or an entity_recognition_error
C10_FailureReported ==
  [][\A s \in Slots :
       StageFailure(s)
         => \/ (published' \ published) \cap FailureEvents(tasks[s].mat) # {}
            \/ db'[tasks[s].mat].translation_error # NULL
            \/ db'[tasks[s].mat].entity_recognition_error # NULL]_vars

\* the automatic refinement of m has ended: llm_translated with a stored
\* result, or failed with a stored translation_error
LlmEnded(m) ==
  \/ db[m].processing_step = "llm_translated" /\ ~db[m].llm_translation_result.null
  \/ db[m].processing_step = "failed" /\ db[m].translation_error # NULL

\* C7: after confirm_entities is accepted and the thread
\* trigger_llm_translation is started for a material, with no further request,
\* the thread ends with the material llm_translated and llm_translation_result
\* stored, or failed and translation_error stored
C7_ConfirmLeadsToLlmEnd ==
  [][\A s \in Slots, m \in Mats :
       (/\ tasks[s].kind = "trigger_llm_translation" /\ tasks[s].mat = m
        /\ tasks'[s].kind = "idle" /\ Exists(m))
         => LlmEnded(m)']_vars

\* the provider call a running activity is waiting for ("none" otherwise)
ProviderCall(s) ==
  IF tasks[s].kind = "idle" THEN "none"
  ELSE IF tasks[s].pc = "ocr" THEN "ocr"
  ELSE IF tasks[s].pc = "llm" THEN "llm"
  ELSE "none"

\* C11: while the OCR call of a stage for a material is in flight the
\* material's committed processing_step is translating, and while the LLM
\* call is in flight it is llm_translating
C11_StepDuringProviderCall ==
  \A s \in Slots :
    /\ ProviderCall(s) = "ocr" =>
         (Exists(tasks[s].mat) => db[tasks[s].mat].processing_step = "translating")
    /\ ProviderCall(s) = "llm" =>
         (Exists(tasks[s].mat) => db[tasks[s].mat].processing_step = "llm_translating")

\* the OCR call of the activity in slot s ends in failure in this step
OcrFailure(s) ==
  \E o \in OcrOutcomes \ {"ok"} :
    translate_one_material_ocr(s, o) \/ retranslate_material_ocr(s, o)

\* C12: when the OCR stage fails for a material, its processing_step becomes
\* failed and translation_error holds the provider's message
C12_OcrFailureStored ==
  [][\A s \in Slots :
       (OcrFailure(s) /\ Exists(tasks[s].mat))
         => /\ db'[tasks[s].mat].processing_step = "failed"
            /\ db'[tasks[s].mat].translation_error # NULL]_vars

\* entity recognition of the activity in slot s fails recoverably in this step
RecoverableFailure(s) ==
  \/ translate_one_material_er(s, "recoverable")
  \/ start_entity_recognition_done(s, "recoverable")
  \/ entity_recognition_fast_done(s, "recoverable")
  \/ entity_recognition_deep_done(s, "recoverable")

\* the HTTP handlers among the triggers of entity recognition
HttpTriggers ==
  {"start_entity_recognition", "entity_recognition_fast", "entity_recognition_deep"}

\* llm_translate_material would not refuse material m
LlmTranslateAccepts(m) ==
  /\ ~check_translation_lock(m)
  /\ \/ ~db[m].llm_translation_result.null
     \/ /\ ~(db[m].entity_recognition_enabled /\ ~db[m].entity_recognition_confirmed)
        /\ db[m].translation_text_info # 0

\* C13: after a recoverable failure of entity recognition, on every trigger
\* path, the material is at translated with entity_recognition_triggered set
\* and entity_recognition_error stored, an HTTP trigger is answered 503, and a
\* later llm-translate request is accepted
C13_RecoverableFailure ==
  [][\A s \in Slots :
       (RecoverableFailure(s) /\ Exists(tasks[s].mat))
         => /\ db'[tasks[s].mat].processing_step = "translated"
            /\ db'[tasks[s].mat].entity_recognition_triggered
            /\ db'[tasks[s].mat].entity_recognition_error # NULL
            /\ tasks[s].kind \in HttpTriggers => resp' = 503
            /\ LlmTranslateAccepts(tasks[s].mat)']_vars

\* the steps from which the LLM stage may start
LlmStartSteps == {"translated", "entity_confirmed"}

\* C14: an llm-translate request for a material whose processing_step is
\* neither translated nor entity_confirmed starts no LLM call and changes
\* nothing, and the thread trigger_llm_translation starts its LLM call only
\* from one of these steps
C14_LlmStartsFromAllowedStep ==
  [][/\ \A m \in Mats :
          (llm_translate_material(m) /\ db[m].processing_step \notin LlmStartSteps)
            => (tasks' = tasks /\ db' = db /\ published' = published)
     /\ \A s \in Slots :
          (trigger_llm_translation_start(s) /\ tasks'[s].pc = "llm")
            => db[tasks[s].mat].processing_step \in LlmStartSteps]_vars

\* C15: after confirm(M, translation_type) M has confirmed = true,
\* processing_step = confirmed and selected_result = translation_type
C15_ConfirmSetsStepAndResult ==
  [][\A m \in Mats, ty \in TranslationTypes :
       confirm_material(m, ty)
         => /\ db'[m].confirmed
            /\ db'[m].processing_step = "confirmed"
            /\ db'[m].selected_result = ty]_vars

\* C16: the pages of one PDF session always carry the same confirmed flag
\* and, when confirmed, the same processing_step
C16_SessionConfirmedTogether ==
  \A x, y \in Mats :
    (/\ Exists(x) /\ Exists(y)
     /\ db[x].pdf_session_id # NULL
     /\ db[x].pdf_session_id = db[y].pdf_session_id)
      => /\ db[x].confirmed = db[y].confirmed
         /\ db[x].confirmed => db[x].processing_step = db[y].processing_step

\* C17: after unconfirm of a confirmed material that was translated, the
\* material is not confirmed, its processing_step is llm_translated when
\* llm_translation_result is stored and translated otherwise, and
\* edited_regions, final_image_path and has_edited_version are unchanged
C17_UnconfirmStep ==
  [][\A m \in Mats :
       (/\ unconfirm_material(m) /\ db[m].confirmed
        /\ db[m].processing_step \in {"translated", "llm_translated"})
         => /\ ~db'[m].confirmed
            /\ db'[m].processing_step =
                 (IF db[m].llm_translation_result.null THEN "translated"
                  ELSE "llm_translated")
            /\ db'[m].edited_regions = db[m].edited_regions
            /\ db'[m].final_image_path = db[m].final_image_path
            /\ db'[m].has_edited_version = db[m].has_edited_version]_vars

\* the columns that hold results of the stages and of the user's edits
ArtifactFields ==
  {"translation_text_info", "llm_translation_result", "edited_regions",
   "final_image_path", "has_edited_version", "entity_recognition_enabled",
   "entity_recognition_mode", "entity_recognition_result",
   "entity_recognition_confirmed", "entity_recognition_triggered",
   "entity_user_edits", "entity_recognition_error"}

\* C18: for a material at translated or llm_translated, confirm followed by
\* unconfirm gives a row with the same processing_step and the same artifact
\* fields as before the confirm
C18_ConfirmUnconfirmRestores ==
  \A m \in Mats, ty \in TranslationTypes :
    (Exists(m) /\ db[m].processing_step \in {"translated", "llm_translated"})
      => LET before == db[m]
             after == unconfirm_page(
                        confirm_page(before, before.pdf_session_id = NULL, ty))
         IN /\ after.processing_step = before.processing_step
            /\ ~after.confirmed
            /\ \A f \in ArtifactFields : after[f] = before[f]

\* a material at translated or llm_translated that was confirmed with
\* translation_type latex and then unconfirmed
C18_Witness ==
  \E m \in Mats :
    /\ Exists(m)
    /\ db[m].processing_step \in {"translated", "llm_translated"}
    /\ db[m].selected_result = "latex"
    /\ ~db[m].confirmed /\ db[m].status = TRANSLATED

\* the handler retranslate_material in slot s answers in this step
RetranslateHandled(s) ==
  tasks[s].kind = "retranslate_material" /\ tasks'[s].kind = "idle"

\* C19: when a retranslate request has been handled, whatever its outcome,
\* the row holds no llm_translation_result other than one made from the new
\* OCR result, and the edited_regions, final_image_path and
\* has_edited_version it had when the request arrived are gone
C19_RetranslateClears ==
  [][\A s \in Slots :
       (RetranslateHandled(s) /\ Exists(tasks[s].mat))
         => LET old == tasks[s].snap
                new == db'[tasks[s].mat]
            IN /\ \/ new.llm_translation_result.null
                  \/ /\ tasks[s].aux # 0
                     /\ new.llm_translation_result.from = tasks[s].aux
               /\ new.edited_regions = NULL \/ new.edited_regions # old.edited_regions
               /\ new.final_image_path = NULL
                    \/ new.final_image_path # old.final_image_path
               /\ ~new.has_edited_version \/ ~old.has_edited_version]_vars

\* C20: after rotate(M) succeeds M is at uploaded with translation_text_info,
\* llm_translation_result, edited_regions and final_image_path null, no
\* edited version and no recognition result, and no stage task was started
C20_RotateResets ==
  [][\A m \in Mats :
       (rotate_material(m) /\ resp' = 200)
         => /\ db'[m].processing_step = "uploaded"
            /\ db'[m].translation_text_info = 0
            /\ db'[m].llm_translation_result.null
            /\ db'[m].edited_regions = NULL
            /\ db'[m].final_image_path = NULL
            /\ ~db'[m].has_edited_version
            /\ db'[m].entity_recognition_result = NULL
            /\ tasks' = tasks]_vars

\* ------------------------------------------------- deleting rows (C21, C24)
MaxDeleteReq == 4

\* DELETE /api/materials/<id>: 404 without the row; the one row is deleted,
\* the commit is followed by invalidate_materials_cache
delete_material(m) ==
  \/ /\ ~Exists(m)
     /\ resp' = 404
     /\ UNCHANGED <<db, tasks, WEBSOCKET_ENABLED, rooms, published, received, budget, ocrSeq,
                    api_cache, commits, wire, arg, ret>>
  \/ /\ Exists(m)
     /\ budget > 0
     /\ db' = [db EXCEPT ![m] = NoRow]
     /\ api_cache' = NoCache
     /\ resp' = 200
     /\ budget' = budget - 1
     /\ UNCHANGED <<tasks, WEBSOCKET_ENABLED, rooms, published, received, ocrSeq, commits, wire, arg, ret>>

\* POST /api/clients/<id>/materials/cancel with material_ids `ids`: 400 for
\* an empty list; the rows found are deleted in one commit, the cache entry
\* is left as it is
cancel_upload(ids) ==
  \/ /\ ids = {}
     /\ resp' = 400
     /\ UNCHANGED <<db, tasks, WEBSOCKET_ENABLED, rooms, published, received, budget, ocrSeq,
                    api_cache, commits, wire, arg, ret>>
  \/ /\ ids # {}
     /\ budget > 0
     /\ db' = [m \in Mats |-> IF m \in ids THEN NoRow ELSE db[m]]
     /\ resp' = 200
     /\ budget' = budget - 1
     /\ UNCHANGED <<tasks, WEBSOCKET_ENABLED, rooms, published, received, ocrSeq,
                    api_cache, commits, wire, arg, ret>>

\* material_ids a client sends to cancel an upload
CancelInputs == {{}, {"p1"}, {"p2"}, {"p1", "p2"}, {"m1"}}

DeleteRequest ==
  \/ upload_files_pdf
  \/ \E m \in ImageIds : upload_files_image(m)
  \/ \E m \in PdfIds \cup ImageIds : delete_material(m)
  \/ \E ids \in CancelInputs : cancel_upload(ids)

DeleteStep ==
  \E s \in Slots :
    \/ process_pdf_async_page(s)
    \/ process_pdf_async_raise(s)

\* PDF uploads, page deletions and upload cancellations
SpecDelete == InitWith(MaxDeleteReq) /\ [][DeleteRequest \/ DeleteStep]_vars

\* the rows of the PDF session of m, m included
Session(m) ==
  {x \in Mats : Exists(x) /\ db[x].pdf_session_id = db[m].pdf_session_id}

\* C21: the materials sharing a pdf_session_id all have the same
\* pdf_total_pages N and their pdf_page_number values are distinct and are
\* exactly 1..N
C21_SessionPagesComplete ==
  \A m \in Mats :
    (Exists(m) /\ db[m].pdf_session_id # NULL) =>
      /\ \A x \in Session(m) : db[x].pdf_total_pages = db[m].pdf_total_pages
      /\ {db[x].pdf_page_number : x \in Session(m)} = 1..db[m].pdf_total_pages
      /\ Cardinality(Session(m)) = db[m].pdf_total_pages

\* ------------------------------------- commit and emit as two steps (C22)
\* translate_one_material after translate_image_reference returned `o`:
\* update_material_status up to db.session.commit(); the thread remembers
\* the number of its commit
update_material_status_commit(s, o) ==
  LET t == tasks[s]
      m == t.mat
      gen == ocrSeq + 1
      row == IF o = "ok"
             THEN update_material_status(db[m], t.snap, t.loaded, TRANSLATED,
                    [translation_text_info |-> gen, translation_error |-> NULL,
                     processing_step |-> "translated"])
             ELSE update_material_status(db[m], t.snap, t.loaded, FAILED,
                    [translation_error |-> o])
  IN /\ t.kind = "translate_all_materials_async" /\ t.pc = "ocr"
     /\ db' = [db EXCEPT ![m] = row]
     /\ ocrSeq' = IF o = "ok" THEN gen ELSE ocrSeq
     /\ commits' = commits + 1
     /\ tasks' = [tasks EXCEPT ![s].pc = "emit", ![s].snap = row,
                               ![s].aux = commits + 1]
     /\ UNCHANGED <<WEBSOCKET_ENABLED, rooms, api_cache, wire, arg, ret, published, received, resp, budget>>

\* the rest of update_material_status: the event is chosen by the status of
\* the reloaded row and emitted; translate_one_material then goes on (a
\* success with entity_recognition_enabled commits entity_recognizing)
update_material_status_emit(s) ==
  LET t == tasks[s]
      m == t.mat
      ok == t.snap.status = TRANSLATED
      ev == CHOOSE e \in StatusEvent(m, db[m]) : TRUE
  IN /\ t.kind = "translate_all_materials_async" /\ t.pc = "emit"
     /\ published' = Emit(StatusEvent(m, db[m]))
     /\ received' = Deliver(StatusEvent(m, db[m]))
     /\ wire' = IF WEBSOCKET_ENABLED THEN Append(wire, <<ev[1], m, t.aux>>) ELSE wire
     /\ IF ok /\ db[m].entity_recognition_enabled
        THEN /\ db' = [db EXCEPT ![m] =
                   Flush(db[m], db[m], TRUE, [processing_step |-> "entity_recognizing"])]
             /\ tasks' = [tasks EXCEPT ![s].pc = "er", ![s].loaded = FALSE,
                                       ![s].aux = t.snap.translation_text_info]
        ELSE /\ tasks' = [tasks EXCEPT ![s].pc = "next"]
             /\ UNCHANGED db
     /\ UNCHANGED <<WEBSOCKET_ENABLED, rooms, api_cache, commits, arg, ret, resp, budget, ocrSeq>>

\* an image, translation runs on it, every update_material_status in two steps
OrderNext ==
  \/ \E m \in ImageIds : upload_files_image(m)
  \/ \E ids \in {{}} \cup {{m} : m \in ImageIds} : start_translation(ids)
  \/ \E m \in ImageIds, i \in ToggleInputs : toggle_entity_recognition(m, i[1], i[2])
  \/ \E s \in Slots :
       \/ translate_one_material_begin(s)
       \/ \E o \in OcrOutcomes : update_material_status_commit(s, o)
       \/ update_material_status_emit(s)
       \/ \E o \in ErOutcomes : translate_one_material_er(s, o)

OrderSpec == InitWith(MaxReq) /\ [][OrderNext]_vars

\* C22: the events published about one material are emitted in the order in
\* which the corresponding transitions were committed
C22_EventsInCommitOrder ==
  \A i, j \in 1..Len(wire) :
    (i < j /\ wire[i][2] = wire[j][2]) => wire[i][3] < wire[j][3]

\* C23: a request handler that triggers a stage answers before the stage's
\* provider call completes: whatever waits for a provider call is one of the
\* background threads, never the handler of a request that is still open
C23_HandlersDoNotAwaitProvider ==
  \A s \in Slots :
    tasks[s].pc \in {"ocr", "llm", "er", "capture"} =>
      tasks[s].kind \in {"translate_all_materials_async", "trigger_llm_translation",
                         "auto_translate_webpages", "process_pdf_async"}

\* ------------------------------------------ the materials-list cache (C24)
\* GET /api/clients/<id>/materials: the cached list when there is one,
\* otherwise the rows are queried and the list is cached for 60 seconds
get_materials ==
  /\ IF api_cache # NoCache
     THEN /\ ret' = api_cache
          /\ UNCHANGED api_cache
     ELSE /\ ret' = <<db>>
          /\ api_cache' = <<db>>
  /\ resp' = 200
  /\ UNCHANGED <<db, tasks, WEBSOCKET_ENABLED, rooms, published, received, budget, ocrSeq,
                 commits, wire, arg>>

\* SimpleCache.get after the entry's 60 seconds have passed
clear_expired ==
  /\ api_cache # NoCache
  /\ api_cache' = NoCache
  /\ UNCHANGED <<db, tasks, WEBSOCKET_ENABLED, rooms, published, received, resp, budget, ocrSeq,
                 commits, wire, arg, ret>>

\* uploads, deletions and confirmations with the list polled in between
CacheNext ==
  \/ DeleteRequest
  \/ DeleteStep
  \/ \E m \in PdfIds, ty \in TranslationTypes : confirm_material(m, ty)
  \/ \E m \in PdfIds : unconfirm_material(m)
  \/ get_materials
  \/ clear_expired

CacheSpec == InitWith(MaxDeleteReq) /\ [][CacheNext]_vars

\* C24: every committed write to a material removes the client's list cache
\* entry, so a GET of the material list never returns a list older than the
\* last write (here: never a status or a confirmation the rows no longer have)
C24_ListIsCurrent ==
  [][get_materials =>
       \A m \in Mats : /\ ret'[1][m].status = db[m].status
                       /\ ret'[1][m].confirmed = db[m].confirmed]_vars

\* C25: the entity recognition chained after a successful OCR runs in the
\* material's stored entity_recognition_mode (a stored deep gives the result
\* of deep recognition), and the material stays 'translated' however the
\* entity stage ends
C25_ChainedRecognitionUsesStoredMode ==
  [][\A s \in Slots, o \in ErOutcomes :
       (translate_one_material_er(s, o) /\ Exists(tasks[s].mat)) =>
         /\ db'[tasks[s].mat].status = TRANSLATED
         /\ (o = "success" /\ db[tasks[s].mat].entity_recognition_mode = "deep") =>
              db'[tasks[s].mat].entity_recognition_result = "deep"]_vars

\* ------------------------------------ llm_service.py as operators (C26, C27)
\* batch_size of optimize_translations (30 in the source), scaled down
BatchSize == 2
\* longest region list: one region more than a batch, so two batches
MaxRegions == BatchSize + 1

\* region.get('id') of a region without the key 'id'; a line of the LLM
\* output that does not match \[(\d+)\]\s*(.+) carries it as well
NoId == -1

\* translations.sort(key=lambda t: t['id']), a stable sort
RECURSIVE SortById(_)
SortById(s) ==
  IF s = <<>> THEN <<>>
  ELSE LET h == Head(s)
           rest == SortById(Tail(s))
       IN SelectSeq(rest, LAMBDA t : t.id < h.id) \o <<h>> \o
          SelectSeq(rest, LAMBDA t : t.id >= h.id)

\* the first index of `regions` whose id is `id`, 0 when there is none
IndexOfId(regions, id) ==
  IF \E i \in 1..Len(regions) : regions[i].id = id
  THEN CHOOSE i \in 1..Len(regions) :
         /\ regions[i].id = id
         /\ \A j \in 1..(i - 1) : regions[j].id # id
  ELSE 0

\* _parse_llm_output(llm_output, original_regions): one entry per matching
\* line, duplicates and unknown ids included, sorted by id
parse_llm_output(llm_output, original_regions) ==
  LET matched == SelectSeq(llm_output, LAMBDA l : l.id # NoId)
      original(id) == IF IndexOfId(original_regions, id) = 0 THEN ""
                      ELSE original_regions[IndexOfId(original_regions, id)].dst
  IN SortById([k \in 1..Len(matched) |->
                 [id |-> matched[k].id, translation |-> matched[k].text,
                  original |-> original(matched[k].id)]])

\* _optimize_batch(regions) when the chat completion answers `reply`
\* ([error |-> TRUE] when the API call raises): the parsed entries, a
\* fallback entry for every region whose id is missing from them (region['id']
\* raises KeyError for a region without the key), then the misalignment check
optimize_batch(regions, reply) ==
  LET translations == parse_llm_output(reply.lines, regions)
      input_ids == {regions[i].id : i \in {j \in 1..Len(regions) : regions[j].src # ""}}
      output_ids == {translations[k].id : k \in 1..Len(translations)}
      missing_ids == input_ids \ output_ids
      missing == SelectSeq(regions, LAMBDA r : r.id \in missing_ids)
      all == translations \o
             [i \in 1..Len(missing) |->
                [id |-> missing[i].id, translation |-> missing[i].dst,
                 original |-> missing[i].dst]]
      InBaidu(text) == \E i \in 1..Len(regions) :
                         regions[i].dst # "" /\ regions[i].dst = text
      baidu_to_id(text) ==
        regions[CHOOSE i \in 1..Len(regions) :
                  /\ regions[i].dst # "" /\ regions[i].dst = text
                  /\ \A j \in (i + 1)..Len(regions) : regions[j].dst # text].id
      correct(t) ==
        IF /\ InBaidu(t.translation)
           /\ baidu_to_id(t.translation) # t.id
           /\ IndexOfId(regions, t.id) # 0
           /\ regions[IndexOfId(regions, t.id)].dst # ""
        THEN [t EXCEPT !.translation = regions[IndexOfId(regions, t.id)].dst]
        ELSE t
  IN IF \A i \in 1..Len(regions) : regions[i].src = ""
     THEN [raised |-> FALSE, value |-> <<>>]
     ELSE IF reply.error \/ NoId \in missing_ids
     THEN [raised |-> TRUE, value |-> <<>>]
     ELSE [raised |-> FALSE, value |-> [k \in 1..Len(all) |-> correct(all[k])]]

\* the batches optimize_translations hands to _optimize_batch
Batches(regions, batch_size) ==
  IF Len(regions) <= batch_size THEN <<regions>>
  ELSE [k \in 1..((Len(regions) + batch_size - 1) \div batch_size) |->
          SubSeq(regions, (k - 1) * batch_size + 1,
                 IF k * batch_size < Len(regions) THEN k * batch_size ELSE Len(regions))]

\* all_translations after the batches from the k-th on: a failing batch is
\* skipped
RECURSIVE all_translations(_, _, _)
all_translations(batches, replies, k) ==
  IF k > Len(batches) THEN <<>>
  ELSE LET r == optimize_batch(batches[k], replies[k])
       IN (IF r.raised THEN <<>> ELSE r.value) \o all_translations(batches, replies, k + 1)

\* optimize_translations(regions, batch_size) of a service whose client is
\* configured or not, the k-th chat completion answering replies[k]
optimize_translations(client, regions, batch_size, replies) ==
  IF ~client THEN [raised |-> TRUE, value |-> <<>>]
  ELSE IF Len(regions) <= batch_size THEN optimize_batch(regions, replies[1])
  ELSE [raised |-> FALSE,
        value |-> all_translations(Batches(regions, batch_size), replies, 1)]

\* region lists the callers pass: regions built by translate_one_material
\* carry id = index, the content retranslate_material passes carries no id
RegionLists ==
  UNION {{[i \in 1..n |-> [id |-> IF ids THEN i - 1 ELSE NoId,
                           src |-> IF i \in withSrc THEN "s" ELSE "",
                           dst |-> <<"a", "b", "c", "d">>[i]]]
          : withSrc \in SUBSET (1..n), ids \in BOOLEAN}
         : n \in 0..MaxRegions}

\* lines an answer is made of: known ids, an unknown id, a line without
\* "[n]", a translation equal to another region's dst
LlmLines ==
  {[id |-> i, text |-> x] : i \in {0, 1, 9}, x \in {"x", "b"}} \cup {[id |-> NoId, text |-> "x"]}

\* answers of the first chat completion
LlmReplies ==
  {[error |-> TRUE, lines |-> <<>>], [error |-> FALSE, lines |-> <<>>]}
  \cup {[error |-> FALSE, lines |-> <<l>>] : l \in LlmLines}
  \cup {[error |-> FALSE, lines |-> <<l, k>>] : l \in LlmLines, k \in LlmLines}

\* a call of optimize_translations with the arguments drawn in Init
call_optimize_translations ==
  /\ ret = <<>>
  /\ ret' = <<optimize_translations(arg.client, arg.regions, BatchSize, arg.replies)>>
  /\ UNCHANGED <<db, tasks, WEBSOCKET_ENABLED, rooms, published, received, resp, budget, ocrSeq,
                 api_cache, commits, wire, arg>>

LlmSpec ==
  /\ \E c \in BOOLEAN, rs \in RegionLists, r1 \in LlmReplies,
        r2 \in {[error |-> TRUE, lines |-> <<>>],
                [error |-> FALSE, lines |-> <<[id |-> BatchSize, text |-> "x"]>>]} :
       InitCall(0, [client |-> c, regions |-> rs, replies |-> <<r1, r2>>])
  /\ [][call_optimize_translations]_vars

\* C26: the LLM stage reports success if and only if at least one batch
\* succeeded; when every batch fails, for one batch or for many, it fails
C26_SuccessIffSomeBatchSucceeded ==
  ret # <<>> =>
    (~ret[1].raised <=>
       /\ arg.client
       /\ \E k \in 1..Len(Batches(arg.regions, BatchSize)) :
            ~optimize_batch(Batches(arg.regions, BatchSize)[k], arg.replies[k]).raised)

\* C27: whatever the LLM answers (lines missing, duplicated, unknown ids), the
\* result of a batch has an entry for every region of the batch that has
\* source text, and an entry whose id was missing from the answer carries the
\* region's own dst; for the region lists of every caller
C27_EveryRegionHasEntry ==
  ret # <<>> =>
    \A k \in 1..Len(Batches(arg.regions, BatchSize)) :
      LET batch == Batches(arg.regions, BatchSize)[k]
          reply == arg.replies[k]
          r == optimize_batch(batch, reply)
          pid(i) == IF batch[i].id # NoId THEN batch[i].id
                    ELSE Cardinality({j \in 1..(i - 1) : batch[j].src # ""})
          answered == {reply.lines[n].id : n \in 1..Len(reply.lines)}
      IN ~reply.error =>
           /\ ~r.raised
           /\ \A i \in 1..Len(batch) :
                batch[i].src # "" =>
                  /\ \E n \in 1..Len(r.value) : r.value[n].id = pid(i)
                  /\ pid(i) \notin answered =>
                       \A n \in 1..Len(r.value) :
                         r.value[n].id = pid(i) => r.value[n].translation = batch[i].dst

\* --------------------------------------- reading a material back (C28)
\* lists of regions a client saves: two edited lists and the empty list
JsonValues == RegionInputs \cup {""}

\* json.loads of a text json.dumps produced
json_loads(text) == CHOOSE v \in JsonValues : json_dumps(v) = text

\* Material.to_dict, the keys the review screen reads
to_dict(row) ==
  [status |-> row.status,
   confirmed |-> row.confirmed,
   selectedResult |-> row.selected_result,
   hasEditedVersion |-> row.has_edited_version,
   editedRegions |-> IF row.edited_regions # NULL /\ row.edited_regions # ""
                     THEN json_loads(row.edited_regions) ELSE NULL,
   processingStep |-> row.processing_step]

\* GET /api/materials/<id>: 404 without the row, else to_dict of the row
get_material(m) ==
  /\ IF Exists(m)
     THEN /\ resp' = 200
          /\ ret' = <<to_dict(db[m])>>
     ELSE /\ resp' = 404
          /\ UNCHANGED ret
  /\ UNCHANGED <<db, tasks, WEBSOCKET_ENABLED, rooms, published, received, budget, ocrSeq,
                 api_cache, commits, wire, arg>>

\* an image whose regions are saved, read back and reset by a rotation
RegionsSpec ==
  /\ InitWith(MaxReq)
  /\ [][\E m \in ImageIds :
          \/ upload_files_image(m)
          \/ \E regions \in JsonValues : save_material_regions(m, regions)
          \/ get_material(m)
          \/ rotate_material(m)]_vars

\* C28: get_material right after save_regions returns exactly the regions
\* written; save_regions sets has_edited_version and selected_result = api,
\* leaves processing_step alone and publishes material_updated
C28_SaveRegionsRoundTrip ==
  [][\A m \in ImageIds, regions \in JsonValues :
       save_material_regions(m, regions) =>
         /\ to_dict(db'[m]).editedRegions = regions
         /\ db'[m].has_edited_version
         /\ db'[m].selected_result = "api"
         /\ db'[m].processing_step = db[m].processing_step
         /\ <<"material_updated", m>> \in published']_vars

\* ------------------------------------------------- export (C29, C30)
MaxExportReq == 5

\* POST /api/materials/<id>/save-final-image with an image file: 404 without
\* the row; the file is saved and its path committed
save_final_image(m) ==
  \/ /\ ~Exists(m)
     /\ resp' = 404
     /\ UNCHANGED <<db, tasks, WEBSOCKET_ENABLED, rooms, published, received, budget, ocrSeq,
                    api_cache, commits, wire, arg, ret>>
  \/ /\ Exists(m)
     /\ budget > 0
     /\ budget' = budget - 1
     /\ db' = [db EXCEPT ![m].final_image_path = "final",
                         ![m].has_edited_version = TRUE]
     /\ resp' = 200
     /\ UNCHANGED <<tasks, WEBSOCKET_ENABLED, rooms, published, received, ocrSeq,
                    api_cache, commits, wire, arg, ret>>

\* the archive before the loop: no file, no pair, no PDF session processed,
\* original_filename not yet bound
NoArchive ==
  [files |-> {}, pairs |-> <<>>, processed |-> {}, original_filename |-> NULL,
   merged |-> <<>>]

\* export_client_materials, the pass of the loop for material `m` on the
\* archive `a`.  A page of a PDF session not yet processed: the original PDF
\* when it is still on disk, the merged PDF of the confirmed pages that have
\* a final image or edited regions, in page order, and a pair made with
\* whatever original_filename holds (unbound or None: no pair).  Any other
\* material: both names are reset, the original is added, the translated file
\* is added for a web page with a translated PDF or for selected_result 'api'
\* with a final or translated image, and the pair when both names are set.
\* edited_image_path and latex_translation_result are never written by the
\* operations modelled here.
export_material(a, m, pdf_exists) ==
  LET row == db[m]
      S == row.pdf_session_id
      pages == {x \in Mats : Exists(x) /\ db[x].pdf_session_id = S /\ db[x].confirmed}
      usable == {x \in pages : db[x].final_image_path # NULL \/ db[x].edited_regions # NULL}
      numbers == {db[x].pdf_page_number : x \in usable}
      images == [i \in 1..Cardinality(numbers) |->
                   CHOOSE n \in numbers : Cardinality({k \in numbers : k < n}) = i - 1]
      pdf_original == IF pdf_exists THEN S \o "_orig" ELSE a.original_filename
      original == IF row.type = "image" THEN m \o "_orig"
                  ELSE IF row.type = "webpage" /\ row.translated_image_path # NULL
                  THEN m \o "_orig"
                  ELSE NULL
      translated ==
        IF row.type = "webpage" /\ row.translated_image_path # NULL
        THEN m \o "_translated"
        ELSE IF /\ row.selected_result = "api"
                /\ (row.final_image_path # NULL \/ row.translated_image_path # NULL)
                /\ \/ row.has_edited_version /\ row.final_image_path # NULL
                   \/ row.translated_image_path # NULL
        THEN m \o "_translated"
        ELSE NULL
  IN IF S # NULL /\ S \notin a.processed
     THEN [files |-> a.files \cup (IF pdf_exists THEN {S \o "_orig"} ELSE {})
                             \cup (IF images # <<>> THEN {S \o "_translated"} ELSE {}),
           pairs |-> IF images # <<>> /\ pdf_original # NULL
                     THEN Append(a.pairs, <<pdf_original, S \o "_translated">>)
                     ELSE a.pairs,
           processed |-> a.processed \cup {S},
           original_filename |-> pdf_original,
           merged |-> IF images # <<>> THEN images ELSE a.merged]
     ELSE IF S # NULL THEN a
     ELSE [files |-> a.files \cup ({original, translated} \ {NULL}),
           pairs |-> IF original # NULL /\ translated # NULL
                     THEN Append(a.pairs, <<original, translated>>)
                     ELSE a.pairs,
           processed |-> a.processed,
           original_filename |-> original,
           merged |-> a.merged]

\* the loop over confirmed_materials from the k-th on
RECURSIVE export_loop(_, _, _, _)
export_loop(a, confirmed_materials, k, pdf_exists) ==
  IF k > Len(confirmed_materials) THEN a
  ELSE export_loop(export_material(a, confirmed_materials[k], pdf_exists),
                   confirmed_materials, k + 1, pdf_exists)

\* '\n'.join(file_pairs), every pair being "original\ntranslated": the lines
\* of list.txt
RECURSIVE list_content(_)
list_content(file_pairs) ==
  IF file_pairs = <<>> THEN <<>>
  ELSE <<Head(file_pairs)[1], Head(file_pairs)[2]>> \o list_content(Tail(file_pairs))

\* GET /api/clients/<id>/export: 404 without confirmed materials; the query
\* has no order_by, so confirmed_materials is the confirmed rows in some
\* order; pdf_exists = os.path.exists(pdf_original_file)
export_client_materials(confirmed_materials, pdf_exists) ==
  /\ Len(confirmed_materials) = Cardinality({m \in Mats : Exists(m) /\ db[m].confirmed})
  /\ {confirmed_materials[i] : i \in 1..Len(confirmed_materials)} =
       {m \in Mats : Exists(m) /\ db[m].confirmed}
  /\ IF confirmed_materials = <<>>
     THEN /\ resp' = 404
          /\ UNCHANGED ret
     ELSE /\ resp' = 200
          /\ ret' = <<LET a == export_loop(NoArchive, confirmed_materials, 1, pdf_exists)
                      IN [files |-> a.files, pairs |-> a.pairs, merged |-> a.merged,
                          list |-> list_content(a.pairs)]>>
  /\ UNCHANGED <<db, tasks, WEBSOCKET_ENABLED, rooms, published, received, budget, ocrSeq,
                 api_cache, commits, wire, arg>>

\* the orders the rows can come in
Orders ==
  UNION {{s \in [1..n -> Mats] : \A i, j \in 1..n : i # j => s[i] # s[j]}
         : n \in 0..Cardinality(Mats)}

ExportRequest ==
  \/ \E m \in ImageIds : upload_files_image(m)
  \/ upload_files_pdf
  \/ \E m \in WebIds : upload_urls(m)
  \/ \E m \in ImageIds : start_translation({m})
  \/ \E m \in ImageIds \cup PdfIds : save_final_image(m)
  \/ \E m \in Mats : confirm_material(m, "api")
  \/ \E order \in Orders : export_client_materials(order, TRUE)

ExportStep ==
  \E s \in Slots :
    \/ process_pdf_async_page(s)
    \/ auto_translate_webpages_start(s)
    \/ \E ok \in BOOLEAN : auto_translate_webpages_done(s, ok)
    \/ translate_one_material_begin(s)
    \/ \E o \in OcrOutcomes : translate_one_material_ocr(s, o)

\* uploads, translation, final images, confirmations and exports; nothing
\* here removes an uploaded PDF from the disk
ExportSpec == InitWith(MaxExportReq) /\ [][ExportRequest \/ ExportStep]_vars

\* C29: for every confirmed non-PDF material that has a translation (an image
\* that was uploaded, OCR-translated and confirmed in particular), the export
\* archive holds its original file and a translated file, and list.txt holds
\* its name pair
C29_ExportHasTranslatedFile ==
  [][\A order \in Orders :
       (export_client_materials(order, TRUE) /\ order # <<>>) =>
         \A m \in ImageIds :
           (Exists(m) /\ db[m].status = CONFIRMED /\ db[m].confirmed
              /\ db[m].translation_text_info # 0) =>
             /\ m \o "_orig" \in ret'[1].files
             /\ m \o "_translated" \in ret'[1].files
             /\ \E i \in 1..Len(ret'[1].pairs) :
                  ret'[1].pairs[i] = <<m \o "_orig", m \o "_translated">>]_vars

\* C30: every pair of list.txt is the original name and the translated name
\* of one material or one PDF session, a PDF session gives at most one pair
\* and one merged PDF of its pages in ascending page number, and the pairs
\* are separated by blank lines
C30_ListPairsWellFormed ==
  [][\A order \in Orders :
       (export_client_materials(order, TRUE) /\ order # <<>>) =>
         LET pairs == ret'[1].pairs
             list == ret'[1].list
             merged == ret'[1].merged
         IN /\ \A i \in 1..Len(pairs) :
                 \E x \in Mats \cup {"s1"} :
                   pairs[i] = <<x \o "_orig", x \o "_translated">>
            /\ \A i, j \in 1..Len(pairs) : (i # j) => pairs[i][2] # pairs[j][2]
            /\ \A i, j \in 1..Len(merged) : (i < j) => merged[i] < merged[j]
            /\ Len(list) = IF pairs = <<>> THEN 0 ELSE 3 * Len(pairs) - 1
            /\ \A i \in 1..Len(pairs) :
                 /\ list[3 * i - 2] = pairs[i][1]
                 /\ list[3 * i - 1] = pairs[i][2]
                 /\ (i < Len(pairs)) => list[3 * i] = ""]_vars

\* ------------------------------------------- the edited version (C31)
MaxEditReq == 6

\* an image whose edits are saved while retranslations and rotations run
EditSpec ==
  /\ InitWith(MaxEditReq)
  /\ [][\/ \E m \in ImageIds :
             \/ upload_files_image(m)
             \/ \E regions \in RegionInputs : save_material_regions(m, regions)
             \/ save_final_image(m)
             \/ retranslate_material(m)
             \/ rotate_material(m)
        \/ \E s \in Slots :
             \/ \E o \in OcrOutcomes : retranslate_material_ocr(s, o)
             \/ \E o \in LlmOutcomes : retranslate_material_llm(s, o)]_vars

\* C31: a material with has_edited_version = true has a non-null
\* final_image_path or a non-null edited_regions
C31_EditedVersionHasData ==
  \A m \in Mats :
    (Exists(m) /\ db[m].has_edited_version) =>
      (db[m].final_image_path # NULL \/ db[m].edited_regions # NULL)

\* --------------------------------------- image compression on upload (C32)
\* max_size = 2 * 1024 * 1024
max_size == 2097152

\* size of the JPEG img.save(..., quality=q) writes, for an image whose
\* encoding costs k bytes per quality step
JpegSize(q, k) == q * k

\* the loop `while low <= high` of the quality search: the best_quality it
\* ends with
RECURSIVE quality_search(_, _, _, _)
quality_search(low, high, best_quality, k) ==
  IF low > high THEN best_quality
  ELSE LET mid == (low + high) \div 2
       IN IF JpegSize(mid, k) <= max_size
          THEN quality_search(mid + 1, high, mid, k)
          ELSE quality_search(low, mid - 1, best_quality, k)

\* the image block of upload_files and of process_pdf_async for a file of
\* file_size bytes whose longest edge is `edge`: above 3000 px the image is
\* scaled to 2800 px; a file above max_size is saved at the best quality of
\* the search and kept only when it fits, otherwise the exception is logged
\* and the file stays as uploaded; a smaller file is saved at quality 75
compress_upload(edge, file_size, k) ==
  LET new_edge == IF edge > 3000 THEN (edge * 2800) \div edge ELSE edge
      best_quality == quality_search(10, 85, 10, k)
  IN IF file_size > max_size
     THEN IF JpegSize(best_quality, k) <= max_size
          THEN [edge |-> new_edge, size |-> JpegSize(best_quality, k),
                quality |-> best_quality]
          ELSE [edge |-> edge, size |-> file_size, quality |-> 0]
     ELSE [edge |-> new_edge, size |-> JpegSize(75, k), quality |-> 75]

\* an upload of an image with the properties drawn in Init
call_compress_upload ==
  /\ ret = <<>>
  /\ ret' = <<compress_upload(arg.edge, arg.file_size, arg.k)>>
  /\ UNCHANGED <<db, tasks, WEBSOCKET_ENABLED, rooms, published, received, resp, budget, ocrSeq,
                 api_cache, commits, wire, arg>>

ImageSpec ==
  /\ \E edge \in {1000, 2800, 2801, 2900, 3000, 3001, 6000},
        file_size \in {500000, max_size, max_size + 1, 9000000},
        k \in {1000, 20000, 30000, 100000, 209715, 250000} :
       InitCall(0, [edge |-> edge, file_size |-> file_size, k |-> k])
  /\ [][call_compress_upload]_vars

\* C32: every image stored by the upload path has its longest edge at most
\* 2800 px and its size at most 2 MB, and the quality search selects the
\* highest quality in [10, 85] whose output fits when there is one
C32_StoredImageWithinCaps ==
  ret # <<>> =>
    /\ ret[1].edge <= 2800
    /\ ret[1].size <= max_size
    /\ (arg.file_size > max_size /\ \E q \in 10..85 : JpegSize(q, arg.k) <= max_size) =>
         /\ JpegSize(ret[1].quality, arg.k) <= max_size
         /\ \A q \in 10..85 : JpegSize(q, arg.k) <= max_size => q <= ret[1].quality

\* ------------------------------------- translate_image_reference (C33)
\* max_retries of translate_image_reference and of get_access_token_reference
max_retries == 3
\* no_retry_codes
no_retry_codes == {69006, 216015, 216201}

\* what one pass of the retry loop meets: get_access_token_reference needs
\* token_calls requests and returns a token or raises; requests.post raises
\* (timeout, SSL error) or answers JSON whose error_code is the number `code`,
\* sent as a JSON number or as a JSON string
AttemptOutcomes ==
  {[token_calls |-> n, token_ok |-> ok, exc |-> e, code |-> c, str |-> s] :
     n \in {1, max_retries}, ok \in BOOLEAN, e \in BOOLEAN,
     c \in {0, 216015, 52001}, s \in BOOLEAN}
  \ {o \in [token_calls : {1}, token_ok : {FALSE}, exc : BOOLEAN,
            code : {0, 216015, 52001}, str : BOOLEAN] : TRUE}

\* translate_image_reference from pass `attempt` (0-based) on, `acc` counting
\* the requests sent and the sleeps taken so far: the result is returned for
\* error_code 0 or '0', for a code found in no_retry_codes, and in the last
\* pass; an exception is raised again only in the last pass
RECURSIVE translate_image_reference(_, _, _)
translate_image_reference(outcomes, attempt, acc) ==
  LET o == outcomes[attempt + 1]
      slept == IF attempt > 0 THEN Append(acc.sleeps, 2 * attempt) ELSE acc.sleeps
      posted == [acc EXCEPT !.sleeps = slept,
                            !.token_calls = @ + o.token_calls,
                            !.calls = IF o.token_ok THEN @ + 1 ELSE @]
      is_error == o.code # 0
      no_retry == ~o.str /\ o.code \in no_retry_codes
      last == attempt = max_retries - 1
  IN IF ~o.token_ok \/ o.exc
     THEN IF last THEN [posted EXCEPT !.result = "raise"]
          ELSE translate_image_reference(outcomes, attempt + 1, posted)
     ELSE IF ~is_error THEN [posted EXCEPT !.result = "ok"]
     ELSE IF no_retry \/ last THEN [posted EXCEPT !.result = "error_code"]
     ELSE translate_image_reference(outcomes, attempt + 1, posted)

\* one OCR stage with the provider behaving as drawn in Init
call_translate_image_reference ==
  /\ ret = <<>>
  /\ ret' = <<translate_image_reference(arg, 0,
                [calls |-> 0, token_calls |-> 0, sleeps |-> <<>>, result |-> NULL])>>
  /\ UNCHANGED <<db, tasks, WEBSOCKET_ENABLED, rooms, published, received, resp, budget, ocrSeq,
                 api_cache, commits, wire, arg>>

OcrSpec ==
  /\ \E a \in [1..max_retries -> AttemptOutcomes] : InitCall(0, a)
  /\ [][call_translate_image_reference]_vars

\* C33: one OCR stage calls the provider at most 3 times, retries with
\* growing backoff, stops after the one call whose response carries a
\* non-retryable error code, and ends with a result or an error
C33_AtMostThreeCalls ==
  ret # <<>> =>
    /\ ret[1].calls <= 3
    /\ \A i, j \in 1..Len(ret[1].sleeps) : (i < j) => ret[1].sleeps[i] < ret[1].sleeps[j]
    /\ ret[1].result \in {"ok", "error_code", "raise"}
    /\ (arg[1].token_ok /\ ~arg[1].exc /\ arg[1].code \in no_retry_codes) =>
         (ret[1].calls = 1 /\ ret[1].result = "error_code")

\* C34: the final write of a background stage never restores results of an
\* image a user action replaced meanwhile: a stored llm_translation_result
\* comes with a stored translation_text_info and was computed from it
C34_LlmResultFromStoredOcr ==
  \A m \in Mats :
    (Exists(m) /\ ~db[m].llm_translation_result.null) =>
      /\ db[m].translation_text_info # 0
      /\ db[m].llm_translation_result.from = db[m].translation_text_info

\* C35: a material becomes confirmed only from processing_step translated or
\* llm_translated; a confirm request in any other step changes nothing
C35_ConfirmOnlyFromTranslated ==
  [][\A m \in Mats :
       (\E t \in {NULL, "api", "latex"} : confirm_material(m, t)) =>
         \A x \in Pages(m) :
           db[x].processing_step \in {"translated", "llm_translated"}
             \/ db'[x] = db[x]]_vars

\* C36: confirm_entities on one page of a PDF session changes, among the
\* siblings, only those in entity_pending_confirm (same edits, moved to
\* entity_confirmed); siblings in any other step keep their
\* entity_user_edits, entity_recognition_confirmed and processing_step
C36_ConfirmEntitiesFrame ==
  [][\A m \in Mats : \A keys \in GuidanceInputs :
       (confirm_entities(m, keys) /\ resp' = 200) =>
         \A x \in Siblings(m) :
           IF db[x].processing_step = "entity_pending_confirm"
           THEN /\ db'[x].entity_user_edits = db'[m].entity_user_edits
                /\ db'[x].processing_step = "entity_confirmed"
           ELSE /\ db'[x].entity_user_edits = db[x].entity_user_edits
                /\ db'[x].entity_recognition_confirmed
                     = db[x].entity_recognition_confirmed
                /\ db'[x].processing_step = db[x].processing_step]_vars

\* C37: save_regions answers with an error status only if nothing was
\* persisted: an error response leaves the material row unchanged
C37_SaveRegionsErrorPersistsNothing ==
  [][\A m \in Mats : \A regions \in RegionInputs :
       (save_material_regions(m, regions) /\ resp' >= 400) =>
         db'[m] = db[m]]_vars

\* ------------------------------- get_materials racing with a write (C38)
MaxPollReq == 3

\* get_materials up to the query: api_cache.get found nothing, the rows are
\* read and serialised; the list is held by the request
get_materials_query ==
  /\ api_cache = NoCache /\ FreeSlots # {}
  /\ tasks' = Spawn(Task("get_materials", NULL, "set", NoRow, FALSE, <<db>>, 0))
  /\ UNCHANGED <<db, WEBSOCKET_ENABLED, rooms, published, received, resp, budget, ocrSeq,
                 api_cache, commits, wire, arg, ret>>

\* the rest of get_materials: api_cache.set(cache_key, materials_data, 60)
\* and the response
get_materials_set(s) ==
  /\ tasks[s].kind = "get_materials" /\ tasks[s].pc = "set"
  /\ api_cache' = tasks[s].queue
  /\ ret' = tasks[s].queue
  /\ resp' = 200
  /\ tasks' = [tasks EXCEPT ![s] = Idle]
  /\ UNCHANGED <<db, WEBSOCKET_ENABLED, rooms, published, received, budget, ocrSeq,
                 commits, wire, arg>>

\* list requests interleaved with writes that commit and then call
\* invalidate_materials_cache
PollNext ==
  \/ \E m \in ImageIds : upload_files_image(m)
  \/ \E m \in ImageIds, regions \in RegionInputs : save_material_regions(m, regions)
  \/ get_materials
  \/ get_materials_query
  \/ \E s \in Slots : get_materials_set(s)

PollSpec == InitWith(MaxPollReq) /\ [][PollNext]_vars

\* C38: once a get_materials request and a write that commits and then
\* invalidates the cache have both finished, the cache holds no entry or a
\* list that reflects the write
C38_NoStaleListCached ==
  (\A s \in Slots : tasks[s].kind # "get_materials") =>
    (api_cache = NoCache \/ api_cache[1] = db)

\* --------------------------------------------- rooms and deliveries (C39)
MaxSocketReq == 3

\* on('join_client') with data {client_id: cid}: the connection joins
\* client_{cid} and is answered 'joined'; without client_id it is answered
\* 'error'
handle_join_client(c, cid) ==
  /\ rooms' = IF cid # "" THEN [rooms EXCEPT ![c] = @ \cup {"client_" \o cid}]
              ELSE rooms
  /\ received' = [received EXCEPT ![c] =
                    @ \cup {<<IF cid # "" THEN "joined" ELSE "error", NULL>>}]
  /\ UNCHANGED <<db, tasks, WEBSOCKET_ENABLED, published, resp, budget, ocrSeq,
                 api_cache, commits, wire, arg, ret>>

\* on('join_material') with data {material_id: m}: the connection joins
\* material_{m} and is answered 'joined_material'
handle_join_material(c, m) ==
  /\ rooms' = [rooms EXCEPT ![c] = @ \cup {"material_" \o m}]
  /\ received' = [received EXCEPT ![c] = @ \cup {<<"joined_material", NULL>>}]
  /\ UNCHANGED <<db, tasks, WEBSOCKET_ENABLED, published, resp, budget, ocrSeq,
                 api_cache, commits, wire, arg, ret>>

\* connections joining rooms while a material is uploaded, retranslated and LLM-translated
SocketNext ==
  \/ \E c \in Conns, cid \in {client_id, ""} : handle_join_client(c, cid)
  \/ \E c \in Conns, m \in ImageIds : handle_join_material(c, m)
  \/ \E m \in ImageIds : \/ upload_files_image(m)
                         \/ retranslate_material(m)
                         \/ llm_translate_material(m)
  \/ \E s \in Slots : \/ \E o \in OcrOutcomes : retranslate_material_ocr(s, o)
                      \/ \E o \in LlmOutcomes : \/ retranslate_material_llm(s, o)
                                                \/ llm_translate_material_done(s, o)

SocketSpec == InitWith(MaxSocketReq) /\ [][SocketNext]_vars

\* C39: an event about material M of client C is delivered only to
\* connections that joined client_{C} or material_{M}
C39_EventsOnlyToSubscribers ==
  \A c \in Conns : \A e \in received[c] :
    e[2] # NULL =>
      \/ ("client_" \o client_id) \in rooms[c]
      \/ ("material_" \o e[2]) \in rooms[c]

\* ------------------------------------- the two workflow state machines (C40)
\* workflow.atomic_state_machine.AtomicAction
AtomicAction ==
  {"translate_baidu", "entity_recognize", "entity_confirm", "entity_skip",
   "llm_optimize", "llm_retry", "review", "skip_to_review", "retranslate"}

\* AtomicStateMachine.TRANSITIONS: step -> {<<action, target step>>}
TRANSITIONS(step) ==
  CASE step = "uploaded" -> {<<"translate_baidu", "translated">>}
    [] step = "split_completed" -> {<<"translate_baidu", "translated">>}
    [] step = "translated" -> {<<"entity_recognize", "entity_recognizing">>,
                               <<"llm_optimize", "llm_translating">>,
                               <<"skip_to_review", "confirmed">>}
    [] step = "entity_pending_confirm" -> {<<"entity_confirm", "entity_confirmed">>,
                                           <<"entity_skip", "translated">>}
    [] step = "entity_confirmed" -> {<<"llm_optimize", "llm_translating">>,
                                     <<"skip_to_review", "confirmed">>}
    [] step = "llm_translated" -> {<<"review", "confirmed">>,
                                   <<"llm_retry", "llm_translating">>}
    [] step = "confirmed" -> {<<"retranslate", "uploaded">>}
    [] step = "failed" -> {<<"retranslate", "uploaded">>,
                           <<"translate_baidu", "translated">>}
    [] OTHER -> {}

GLOBAL_ACTIONS == {"retranslate", "translate_baidu"}

\* AtomicStateMachine.can_do(current_step, action)
can_do(current_step, action) ==
  \/ action \in GLOBAL_ACTIONS
  \/ \E tr \in TRANSITIONS(current_step) : tr[1] = action

\* AtomicStateMachine.do_transition(current_step, action); NULL is None
do_transition(current_step, action) ==
  IF ~can_do(current_step, action) THEN NULL
  ELSE IF action = "retranslate" THEN "uploaded"
  ELSE IF action = "translate_baidu" THEN "translated"
  ELSE (CHOOSE tr \in TRANSITIONS(current_step) : tr[1] = action)[2]

\* the module-level validate_transition(current_step, action) of
\* workflow.atomic_state_machine: <<is_valid, next_step, error_message>>
validate_transition(current_step, action) ==
  IF current_step \in {"translating", "entity_recognizing", "llm_translating",
                       "splitting"}
  THEN <<FALSE, NULL, "processing">>
  ELSE IF ~can_do(current_step, action)
  THEN <<FALSE, NULL, "unsupported">>
  ELSE <<TRUE, do_transition(current_step, action), NULL>>

\* state_machine.STATE_TRANSITIONS: from_states and to_state of each entry
\* (NULL is the None of a new material)
STATE_TRANSITIONS ==
  {<<{NULL}, "uploaded">>, <<{NULL}, "splitting">>,
   <<{"splitting"}, "split_completed">>,
   <<{"uploaded", "split_completed"}, "translating">>,
   <<{"translating"}, "translated">>, <<{"translating"}, "failed">>,
   <<{"translated"}, "entity_recognizing">>,
   <<{"entity_recognizing"}, "entity_pending_confirm">>,
   <<{"entity_recognizing"}, "translated">>,
   <<{"entity_recognizing"}, "failed">>,
   <<{"entity_pending_confirm"}, "entity_confirmed">>,
   <<{"entity_confirmed"}, "llm_translating">>,
   <<{"translated"}, "llm_translating">>,
   <<{"llm_translating"}, "llm_translated">>, <<{"llm_translating"}, "failed">>,
   <<{"translated"}, "confirmed">>, <<{"llm_translated"}, "confirmed">>,
   <<{"confirmed"}, "translated">>, <<{"confirmed"}, "llm_translated">>,
   <<{"translated", "entity_pending_confirm", "entity_confirmed",
      "llm_translated", "confirmed", "failed"}, "translating">>,
   <<{"uploaded", "split_completed", "translated", "entity_recognizing",
      "entity_pending_confirm", "entity_confirmed", "llm_translating",
      "llm_translated", "confirmed", "failed"}, "uploaded">>,
   <<{"failed"}, "translating">>}

\* StateMachine.can_transition(current_state, target_state) on enum values
can_transition(current_state, target_state) ==
  \E transition \in STATE_TRANSITIONS :
    transition[2] = target_state /\ current_state \in transition[1]

\* one call validate_transition(step, action); the answer is returned with
\* what do_transition gives for the same arguments
call_validate_transition ==
  /\ ret = <<>>
  /\ ret' = <<[valid |-> validate_transition(arg[1], arg[2]),
               next_step |-> do_transition(arg[1], arg[2])]>>
  /\ UNCHANGED <<db, tasks, WEBSOCKET_ENABLED, rooms, published, received, resp,
                 budget, ocrSeq, api_cache, commits, wire, arg>>

AtomicSpec ==
  /\ \E s \in ProcessingStep, a \in AtomicAction : InitCall(0, <<s, a>>)
  /\ [][call_validate_transition]_vars

\* C40: every step returned by AtomicStateMachine.do_transition(s, a) is a
\* target StateMachine.can_transition accepts from s, and from every
\* processing step validate_transition rejects every action
C40_AtomicRefinesCanonical ==
  ret # <<>> =>
    /\ ret[1].next_step # NULL => can_transition(arg[1], ret[1].next_step)
    /\ arg[1] \in PROCESSING_STATES => ~ret[1].valid[1]
====
